---------------------------- MODULE Spec2Model ----------------------------
(***************************************************************************)
(* Model of the authentication orchestration of the Talk desktop client:   *)
(*   - the login-flow URL codec (login.service.js),                        *)
(*   - the login window state machine openLoginWebView (login.service.js,  *)
(*     second half: login.window.js),                                      *)
(*   - the deep-link router and the authentication:openLoginWebView IPC    *)
(*     handler (main.js).                                                  *)
(*                                                                         *)
(* JavaScript strings are modelled as sequences of one-character strings,  *)
(* so that startsWith / split / indexOf / percent-coding are computed the  *)
(* way the code computes them.  undefined is modelled by the empty         *)
(* sequence where the code can never store an empty string.                *)
(***************************************************************************)
EXTENDS Integers, Sequences, FiniteSets, TLC

(***************************************************************************)
(* String primitives (JavaScript String.prototype)                         *)
(***************************************************************************)

\* s.startsWith(p)
startsWith(s, p) == Len(s) >= Len(p) /\ SubSeq(s, 1, Len(p)) = p

\* s.substring(n)
substring(s, n) == SubSeq(s, n + 1, Len(s))

\* s.substring(a, b)
substring2(s, a, b) == SubSeq(s, a + 1, b)

\* s.indexOf(c) for a one-character c; 0-based, -1 when absent
indexOf(s, c) ==
    IF \E i \in 1..Len(s) : s[i] = c
    THEN (CHOOSE i \in 1..Len(s) : s[i] = c /\ \A j \in 1..(i - 1) : s[j] # c) - 1
    ELSE -1

\* s.includes(sub)
includes(s, sub) ==
    \E i \in 0..(Len(s) - Len(sub)) : SubSeq(s, i + 1, i + Len(sub)) = sub

\* s.split(c) for a one-character separator c
RECURSIVE split(_, _)
split(s, c) ==
    LET i == indexOf(s, c)
    IN  IF i = -1 THEN <<s>>
        ELSE <<substring2(s, 0, i)>> \o split(substring(s, i + 1), c)

\* s.replaceAll(a, b) for one-character a and b
replaceAll(s, a, b) == [i \in 1..Len(s) |-> IF s[i] = a THEN b ELSE s[i]]

(***************************************************************************)
(* Percent coding (encodeURIComponent / decodeURIComponent), ASCII range   *)
(***************************************************************************)

HexDigits == <<"0", "1", "2", "3", "4", "5", "6", "7",
               "8", "9", "A", "B", "C", "D", "E", "F">>

\* printable ASCII, code points 32..126 in order
Ascii == <<" ", "!", "DQUOTE", "#", "$", "%", "&", "'", "(", ")", "*", "+", ",", "-", ".", "/",
           "0", "1", "2", "3", "4", "5", "6", "7", "8", "9", ":", ";", "<", "=", ">", "?",
           "@", "A", "B", "C", "D", "E", "F", "G", "H", "I", "J", "K", "L", "M", "N", "O",
           "P", "Q", "R", "S", "T", "U", "V", "W", "X", "Y", "Z", "[", "BACKSLASH", "]", "^", "_",
           "BACKTICK", "a", "b", "c", "d", "e", "f", "g", "h", "i", "j", "k", "l", "m", "n", "o",
           "p", "q", "r", "s", "t", "u", "v", "w", "x", "y", "z", "{", "|", "}", "~">>

UpperLetters == {Ascii[i] : i \in 34..59}
LowerLetters == {Ascii[i] : i \in 66..91}
Digits       == {Ascii[i] : i \in 17..26}

\* code point of a printable ASCII character
CharCode(c) == 31 + (CHOOSE i \in 1..Len(Ascii) : Ascii[i] = c)

\* value of a hexadecimal digit (either case), -1 if c is not one
HexVal(c) ==
    IF \E i \in 1..16 : HexDigits[i] = c
    THEN (CHOOSE i \in 1..16 : HexDigits[i] = c) - 1
    ELSE IF c \in {"a", "b", "c", "d", "e", "f"}
         THEN CharCode(c) - 87
         ELSE -1

\* characters encodeURIComponent leaves alone: A-Z a-z 0-9 - _ . ! ~ * ' ( )
UriUnreserved ==
    UpperLetters \cup LowerLetters \cup Digits
        \cup {"-", "_", ".", "!", "~", "*", "'", "(", ")"}

\* encodeURIComponent(s)
RECURSIVE encodeURIComponent(_)
encodeURIComponent(s) ==
    IF s = <<>> THEN <<>>
    ELSE LET c == Head(s)
             n == CharCode(c)
         IN  (IF c \in UriUnreserved THEN <<c>>
              ELSE <<"%", HexDigits[(n \div 16) + 1], HexDigits[(n % 16) + 1]>>)
             \o encodeURIComponent(Tail(s))

\* decodeURIComponent(s): [ok |-> FALSE] models the URIError that is thrown
\* for a malformed escape or for an escape above the ASCII range (the model's
\* strings are ASCII, so such an escape never starts a valid UTF-8 sequence);
\* an escaped control character decodes to the placeholder "CTL"
RECURSIVE decodeURIComponent(_)
decodeURIComponent(s) ==
    IF s = <<>> THEN [ok |-> TRUE, val |-> <<>>]
    ELSE IF Head(s) # "%"
    THEN LET r == decodeURIComponent(Tail(s))
         IN  IF r.ok THEN [ok |-> TRUE, val |-> <<Head(s)>> \o r.val] ELSE r
    ELSE IF Len(s) < 3 \/ HexVal(s[2]) = -1 \/ HexVal(s[3]) = -1
    THEN [ok |-> FALSE, val |-> <<>>]
    ELSE LET n == 16 * HexVal(s[2]) + HexVal(s[3])
             r == decodeURIComponent(SubSeq(s, 4, Len(s)))
         IN  IF n > 127 THEN [ok |-> FALSE, val |-> <<>>]
             ELSE IF ~r.ok THEN r
             ELSE IF n < 32 \/ n = 127 THEN [ok |-> TRUE, val |-> <<"CTL">> \o r.val]
             ELSE [ok |-> TRUE, val |-> <<Ascii[n - 31]>> \o r.val]

\* s.replace(/%20/g, '+')
RECURSIVE replacePct20(_)
replacePct20(s) ==
    IF Len(s) < 3 THEN s
    ELSE IF SubSeq(s, 1, 3) = <<"%", "2", "0">>
    THEN <<"+">> \o replacePct20(SubSeq(s, 4, Len(s)))
    ELSE <<Head(s)>> \o replacePct20(Tail(s))

(***************************************************************************)
(* new URL(s): the part of the WHATWG URL parser the code relies on        *)
(***************************************************************************)

Str_http  == <<"h", "t", "t", "p">>
Str_https == <<"h", "t", "t", "p", "s">>
Str_ftp   == <<"f", "t", "p">>
Str_ws    == <<"w", "s">>
Str_wss   == <<"w", "s", "s">>

\* schemes whose URLs must carry a host
HostSchemes == {Str_http, Str_https, Str_ftp, Str_ws, Str_wss}

\* code points that may not occur in a host
ForbiddenHostChars ==
    {" ", "#", "%", "/", ":", "<", ">", "?", "@", "[", "BACKSLASH", "]", "^", "|", "CTL"}

toLowerCase(s) ==
    [i \in 1..Len(s) |->
        IF s[i] \in UpperLetters THEN Ascii[CharCode(s[i]) - 31 + 32] ELSE s[i]]

\* leading and trailing spaces are stripped before parsing
RECURSIVE trim(_)
trim(s) ==
    IF s = <<>> THEN s
    ELSE IF Head(s) = " " THEN trim(Tail(s))
    ELSE IF s[Len(s)] = " " THEN trim(SubSeq(s, 1, Len(s) - 1))
    ELSE s

RECURSIVE stripSlashes(_)
stripSlashes(s) ==
    IF s # <<>> /\ Head(s) \in {"/", "BACKSLASH"} THEN stripSlashes(Tail(s)) ELSE s

\* the prefix of s before the first character of set cs
RECURSIVE upTo(_, _)
upTo(s, cs) ==
    IF s = <<>> \/ Head(s) \in cs THEN <<>> ELSE <<Head(s)>> \o upTo(Tail(s), cs)

\* new URL(s): [ok |-> FALSE] models the TypeError, protocol is url.protocol
NewURL(s) ==
    LET t      == trim(s)
        i      == indexOf(t, ":")
        scheme == toLowerCase(substring2(t, 0, i))
        rest   == substring(t, i + 1)
        auth   == upTo(stripSlashes(rest), {"/", "BACKSLASH", "?", "#"})
        at     == indexOf(auth, "@")
        hostpt == IF at = -1 THEN auth ELSE substring(auth, at + 1)
        colon  == indexOf(hostpt, ":")
        rawhost == IF colon = -1 THEN hostpt ELSE substring2(hostpt, 0, colon)
        port   == IF colon = -1 THEN <<>> ELSE substring(hostpt, colon + 1)
        host   == decodeURIComponent(rawhost)
        bad    == [ok |-> FALSE, protocol |-> <<>>]
    IN  IF i <= 0 THEN bad
        ELSE IF ~(scheme[1] \in LowerLetters
                  /\ \A k \in 1..Len(scheme) :
                        scheme[k] \in LowerLetters \cup Digits \cup {"+", "-", "."})
        THEN bad
        ELSE IF scheme \notin HostSchemes
        THEN [ok |-> TRUE, protocol |-> scheme \o <<":">>]
        ELSE IF rawhost = <<>> \/ ~host.ok THEN bad
        ELSE IF \E k \in 1..Len(host.val) : host.val[k] \in ForbiddenHostChars THEN bad
        ELSE IF \E k \in 1..Len(port) : port[k] \notin Digits THEN bad
        ELSE [ok |-> TRUE, protocol |-> scheme \o <<":">>]

(***************************************************************************)
(* login.service.js: the login-flow URL codec                              *)
(***************************************************************************)

Str_nc       == <<"n", "c", ":", "/", "/">>
Str_login    == <<"l", "o", "g", "i", "n", "/">>
Str_nclogin  == <<"n", "c", ":", "/", "/", "l", "o", "g", "i", "n">>
Str_server   == <<"s", "e", "r", "v", "e", "r">>
Str_user     == <<"u", "s", "e", "r">>
Str_password == <<"p", "a", "s", "s", "w", "o", "r", "d">>
Str_code     == <<"c", "o", "d", "e">>
Str_state    == <<"s", "t", "a", "t", "e">>

\* undefined, for a field that never holds an empty string
Undefined == <<>>

EmptyParams ==
    [server |-> Undefined, user |-> Undefined, password |-> Undefined,
     code |-> Undefined, state |-> Undefined]

\* one iteration of the loop over the pairs (lines 60-96)
parsePair(params, pair) ==
    LET firstColonIndex == indexOf(pair, ":")
        key   == substring2(pair, 0, firstColonIndex)
        value == substring(pair, firstColonIndex + 1)
        plain == decodeURIComponent(value)
        spaced == replaceAll(value, "+", " ")
        form  == decodeURIComponent(spaced)
    IN  IF pair = <<>> THEN params
        ELSE IF firstColonIndex = -1 THEN params
        ELSE IF key = <<>> \/ value = <<>> THEN params
        ELSE IF key = Str_server THEN [params EXCEPT !.server = value]
        ELSE IF key = Str_code
        THEN [params EXCEPT !.code = IF plain.ok THEN plain.val ELSE value]
        ELSE IF key = Str_state
        THEN [params EXCEPT !.state = IF plain.ok THEN plain.val ELSE value]
        ELSE IF key = Str_user
        THEN [params EXCEPT !.user = IF form.ok THEN form.val ELSE spaced]
        ELSE IF key = Str_password
        THEN [params EXCEPT !.password = IF form.ok THEN form.val ELSE spaced]
        ELSE params

RECURSIVE parsePairs(_, _)
parsePairs(params, pairs) ==
    IF pairs = <<>> THEN params
    ELSE parsePairs(parsePair(params, Head(pairs)), Tail(pairs))

ParseError(msg) ==
    [ok |-> FALSE, error |-> msg, server |-> Undefined, user |-> Undefined,
     password |-> Undefined, code |-> Undefined, state |-> Undefined]

\* the checks of the server URL (lines 118-129) and the returned Credentials
\* (lines 131-141); serverUrl is new URL(params.server)
checkServerUrl(params, serverUrl) ==
    IF ~serverUrl.ok THEN ParseError("Invalid server URL")
    ELSE IF ~startsWith(serverUrl.protocol, Str_http) THEN ParseError("Invalid server URL")
    ELSE [ok |-> TRUE, error |-> "", server |-> params.server, user |-> params.user,
          password |-> params.password, code |-> params.code, state |-> params.state]

\* the checks of the required parameters (lines 99-115)
validateParams(params) ==
    IF params.server = Undefined THEN ParseError("Missing server")
    ELSE IF params.user = Undefined THEN ParseError("Missing user")
    ELSE IF params.password = Undefined THEN ParseError("Missing password")
    ELSE checkServerUrl(params, NewURL(params.server))

\* parseLoginRedirectUrl(url): ok = FALSE models the thrown Error;
\* substring(url, 5) is withoutProtocol, substring(url, 11) is paramsString
parseLoginRedirectUrl(url) ==
    IF url = <<>> THEN ParseError("Invalid URL")
    ELSE IF ~startsWith(url, Str_nc) THEN ParseError("Invalid protocol")
    ELSE IF substring(url, 5) = <<>> THEN ParseError("Missing endpoint")
    ELSE IF ~startsWith(substring(url, 5), Str_login) THEN ParseError("Invalid endpoint")
    ELSE IF substring(url, 11) = <<>> THEN ParseError("Missing parameters")
    ELSE validateParams(parsePairs(EmptyParams, split(substring(url, 11), "&")))

\* the code and state of parsed credentials, {} when the URL did not parse
\* (lines 237-251)
oauthParamsOf(credentials) ==
    IF credentials.ok
    THEN [code |-> credentials.code, state |-> credentials.state]
    ELSE [code |-> Undefined, state |-> Undefined]

\* extractOAuthParams(url)
extractOAuthParams(url) == oauthParamsOf(parseLoginRedirectUrl(url))

(***************************************************************************)
(* login.window.js (openLoginWebView): inputs of one login attempt         *)
(***************************************************************************)

Str_index_php == <<"/", "i", "n", "d", "e", "x", ".", "p", "h", "p">>
Str_apps == <<"/", "a", "p", "p", "s", "/">>
Str_login_flow == <<"/", "l", "o", "g", "i", "n", "/", "f", "l", "o", "w">>
Str_login_flow_grant ==
    <<"/", "l", "o", "g", "i", "n", "/", "f", "l", "o", "w", "/", "g", "r", "a", "n", "t">>
Str_clientIdentifier ==
    <<"c", "l", "i", "e", "n", "t", "I", "d", "e", "n", "t", "i", "f", "i", "e", "r", "=">>
Str_selectUserBackEnd ==
    <<"s", "e", "l", "e", "c", "t", "U", "s", "e", "r", "B", "a", "c", "k", "E", "n", "d">>
Str_saml_select ==
    <<"/", "a", "p", "p", "s", "/", "u", "s", "e", "r", "_", "s", "a", "m", "l", "/",
      "s", "a", "m", "l", "/">> \o Str_selectUserBackEnd
Str_login_q == <<"/", "l", "o", "g", "i", "n", "?">>
Str_slash_login == <<"/", "l", "o", "g", "i", "n">>
Str_direct1 == <<"d", "i", "r", "e", "c", "t", "=", "1">>
Str_login_success ==
    <<"l", "o", "g", "i", "n", "_", "s", "u", "c", "c", "e", "s", "s", "=", "1">>
Str_auth_complete ==
    <<"a", "u", "t", "h", "_", "c", "o", "m", "p", "l", "e", "t", "e", "=", "1">>
Str_oauth_user == <<"o", "a", "u", "t", "h", "_", "u", "s", "e", "r">>
Str_nextcloud_user ==
    <<"n", "e", "x", "t", "c", "l", "o", "u", "d", "_", "u", "s", "e", "r">>
Str_fallback_token ==
    <<"f", "a", "l", "l", "b", "a", "c", "k", "_", "t", "o", "k", "e", "n", "_", "1">>
Str_main_page_token ==
    <<"m", "a", "i", "n", "_", "p", "a", "g", "e", "_", "t", "o", "k", "e", "n", "_", "1">>

\* the serverUrl argument of openLoginWebView
ServerUrl == <<"h", "t", "t", "p", ":", "/", "/", "c">>

\* pages the provider can show in the login window
Url_select  == ServerUrl \o Str_index_php \o Str_saml_select
Url_direct  == ServerUrl \o Str_index_php \o Str_login_q \o Str_direct1
Url_flow    == ServerUrl \o Str_index_php \o Str_login_flow \o <<"?">> \o Str_clientIdentifier
Url_grant   == ServerUrl \o Str_index_php \o Str_login_flow_grant
Url_root    == ServerUrl \o <<"/">>
Url_idp     == <<"h", "t", "t", "p", "s", ":", "/", "/", "i", "/", "a", "d", "f", "s">>

PageUrls == {Url_select, Url_direct, Url_flow, Url_grant, Url_root}

\* isFinalGrantPage(url) (lines 854-860)
isFinalGrantPage(url) ==
    LET isGrant         == includes(url, Str_login_flow_grant)
        isSelectionPage == includes(url, Str_selectUserBackEnd)
        isLoginPage     == includes(url, Str_login_q)
    IN  isGrant /\ ~isSelectionPage /\ ~isLoginPage

\* the URL tests of did-finish-load (lines 520, 531, 542-545, 561, 626) and of
\* did-navigate (lines 643, 671-673), evaluated once per page
PageTests(url) ==
    [approval  |-> includes(url, Str_login_flow) /\ includes(url, Str_clientIdentifier),
     selection |-> includes(url, Str_saml_select),
     direct    |-> /\ includes(url, Str_slash_login)
                   /\ includes(url, Str_direct1)
                   /\ ~includes(url, Str_selectUserBackEnd)
                   /\ ~includes(url, Str_login_flow),
     grant     |-> isFinalGrantPage(url),
     stillFlow |-> isFinalGrantPage(url) \/ includes(url, Str_login_flow),
     root      |-> url = ServerUrl \/ url = ServerUrl \o <<"/">>,
     success   |-> \/ includes(url, Str_apps)
                   \/ includes(url, Str_index_php)
                   \/ url = ServerUrl
                   \/ url = ServerUrl \o <<"/">>
                   \/ includes(url, Str_login_success)
                   \/ includes(url, Str_auth_complete)]

\* getURL() of a window that has not committed a navigation yet
BlankUrl == <<>>

Page == [u \in PageUrls \cup {BlankUrl} |-> PageTests(u)]

\* generateRandomString(32) for the PKCE state: the value the attempt drew;
\* a callback carries this value, another one (<<"t">>) or none
StateValues == {<<"s">>}

\* a callback URL nc://login/server:..&user:..&password:..[&code:..][&state:..]
CallbackUrl(server, user, password, code, st) ==
    Str_nc \o Str_login
        \o Str_server \o <<":">> \o server
        \o <<"&">> \o Str_user \o <<":">> \o user
        \o (IF password = Undefined THEN <<>>
            ELSE <<"&">> \o Str_password \o <<":">> \o password)
        \o (IF code = Undefined THEN <<>> ELSE <<"&">> \o Str_code \o <<":">> \o code)
        \o (IF st = Undefined THEN <<>> ELSE <<"&">> \o Str_state \o <<":">> \o st)

Cb_plain     == CallbackUrl(ServerUrl, <<"a">>, <<"p">>, Undefined, Undefined)
Cb_codeS     == CallbackUrl(ServerUrl, <<"a">>, <<"p">>, <<"k">>, <<"s">>)
Cb_codeT     == CallbackUrl(ServerUrl, <<"a">>, <<"p">>, <<"k">>, <<"t">>)
\* the redirect of a standard OAuth provider: nc://login?code=k&state=s
Cb_query     ==
    Str_nclogin \o <<"?">> \o Str_code \o <<"=", "k", "&">> \o Str_state \o <<"=", "s">>

\* URLs the login window can be redirected or navigated to, and deep links
CallbackUrls == {Cb_plain, Cb_codeS, Cb_codeT, Cb_query}

\* parseLoginRedirectUrl / extractOAuthParams of each of them, evaluated once
Parsed == [u \in CallbackUrls |-> parseLoginRedirectUrl(u)]
OAuthParams == [u \in CallbackUrls |-> extractOAuthParams(u)]

\* what the token endpoint can answer: ok = FALSE is a non-2xx status or a
\* network error (exchangeAuthorizationCode returns null), otherwise the
\* JSON body with its access_token and user_id, either of which may be absent
NullToken == [ok |-> FALSE, access_token |-> Undefined, user_id |-> Undefined]

TokenResponses ==
    {NullToken}
        \cup [ok : {TRUE}, access_token : {Undefined, <<"T">>}, user_id : {Undefined, <<"u">>}]

\* authStrategy.type
StrategyTypes == {"saml", "file"}

(***************************************************************************)
(* Outcomes: what resolve() is called with                                 *)
(***************************************************************************)

Pending ==
    [kind |-> "pending", server |-> Undefined, user |-> Undefined, password |-> Undefined,
     code |-> Undefined, state |-> Undefined, tokenData |-> NullToken, message |-> ""]

\* new Error(message)
Failure(msg) == [Pending EXCEPT !.kind = "error", !.message = msg]

\* the Credentials object parseLoginRedirectUrl returns (lines 131-141)
ParsedCredentials(c) ==
    [Pending EXCEPT !.kind = "credentials", !.server = c.server, !.user = c.user,
                    !.password = c.password, !.code = c.code, !.state = c.state]

\* oauthCredentials (lines 719-724 and 774-779)
OAuthCredentials(tokenData) ==
    [Pending EXCEPT !.kind = "credentials", !.server = ServerUrl,
                    !.user = IF tokenData.user_id # Undefined
                             THEN tokenData.user_id ELSE Str_oauth_user,
                    !.password = tokenData.access_token,
                    !.tokenData = tokenData]

Cancelled == Failure("OAuth authorization was cancelled")

(***************************************************************************)
(* handleGrantPageCompletionFallback (lines 865-941)                       *)
(***************************************************************************)

\* what the injected inspection script can return (lines 892-900)
PageInspections ==
    {[error |-> TRUE,  hasSuccessIndicator |-> FALSE, hasUserElement |-> FALSE,
      userName |-> Str_user],
     [error |-> FALSE, hasSuccessIndicator |-> FALSE, hasUserElement |-> FALSE,
      userName |-> Str_user],
     [error |-> FALSE, hasSuccessIndicator |-> TRUE,  hasUserElement |-> FALSE,
      userName |-> Str_user],
     [error |-> FALSE, hasSuccessIndicator |-> TRUE,  hasUserElement |-> TRUE,
      userName |-> <<"a">>]}

FallbackFailure == [success |-> FALSE, credentials |-> Pending]

\* what the fallback returns once parseLoginRedirectUrl has returned or
\* thrown: a throw is caught (line 937) and gives success = FALSE
fallbackResult(credentials) ==
    IF credentials.ok
    THEN [success |-> TRUE, credentials |-> ParsedCredentials(credentials)]
    ELSE FallbackFailure

\* the result of the fallback for the inspection result userInfo, the URL the
\* window shows and the session's PKCE state
handleGrantPageCompletionFallback(userInfo, currentUrl, st) ==
    IF ~userInfo.error /\ (userInfo.hasSuccessIndicator \/ userInfo.hasUserElement)
    THEN fallbackResult(
             parseLoginRedirectUrl(
                 CallbackUrl(encodeURIComponent(ServerUrl),
                             encodeURIComponent(userInfo.userName),
                             Str_fallback_token, Undefined, st)))
    ELSE IF currentUrl = ServerUrl \/ currentUrl = ServerUrl \o <<"/">>
    THEN fallbackResult(
             parseLoginRedirectUrl(
                 CallbackUrl(encodeURIComponent(ServerUrl), Str_nextcloud_user,
                             Str_main_page_token, Undefined, st)))
    ELSE FallbackFailure

\* the fallback's result for every inspection, page and state, evaluated once
Fallback ==
    [i \in PageInspections, u \in PageUrls \cup {BlankUrl}, st \in StateValues |->
        handleGrantPageCompletionFallback(i, u, st)]

(***************************************************************************)
(* State                                                                   *)
(***************************************************************************)

\* bounds on the events the environment delivers in one run
MaxNavigations == 1
MaxCallbacks == 2
MaxDeepLinks == 1

\* MAX_FORM_FILL_ATTEMPTS (line 503)
MAX_FORM_FILL_ATTEMPTS == 3

\* loads of one page in the page-automation specification
MaxRenders == 6

VARIABLES
    \* openLoginWebView
    window,                 \* "none" | "open" | "closedByUser" | "closedByCode"
    state,                  \* the PKCE state of the session
    authStrategy,           \* authStrategy.type
    pageUrl,                \* window.webContents.getURL()
    loadPending,            \* a committed navigation whose did-finish-load is due
    codeExchanged,
    oauthApprovalAttempted,
    loginMethodSelected,
    methodSelections,       \* history: what handleLoginMethodSelection ran
    loginFormFilled,
    grantPageHandled,
    formFillAttempts,
    grantTimeout,           \* the 20 s watchdog: "unset" | "pending" | "fired" | "cleared"
    grantTask,              \* the grant-page automation chain: [src, pc]
    successTimers,          \* pending 3 s success-page timers of did-navigate
    pendingFallbacks,       \* fallbacks awaited by did-finish-load and by those timers
    exchanges,              \* token exchanges started, in order
    loginOutcome,           \* the promise openLoginWebView returned
    \* main.js
    deepLinkUrl,            \* the cached deep link, Undefined when null
    deeplinkResolvers,      \* the waiter queue
    ipcPc,                  \* authentication:openLoginWebView: "idle" |
                            \* "waitDeepLink" | "waitLogin" | "done"
    ipcOutcome,             \* what the handler returned to the caller
    \* history
    resolveLog,             \* the values resolve() was called with, in order
    lastCallback,           \* the last URL will-redirect / will-navigate handled
    firstSignal,            \* which of login window and deep link fired first
    ipcDeepLink,            \* the deep link that resolved the handler
    waitCode,               \* the oauth-wait-code calls: [pc, result]
    deliveries,             \* history: which arrival was handed to which waiter
    call,                   \* the last call of a pure function: [fn, input, output]
    store,                  \* credentials.json, appData, createMainWindow, last operation
    attempts,               \* the PKCE triple and position of each login attempt
    outbox,                 \* history: the requests the process sent
    warner,                 \* the SpeakingWhileMutedWarner and the model it listens to
    navigations,
    callbacks,
    deepLinks

flags ==
    <<codeExchanged, oauthApprovalAttempted, loginMethodSelected, methodSelections,
      loginFormFilled,
      grantPageHandled, formFillAttempts>>

session == <<state, authStrategy>>

page == <<pageUrl, loadPending, navigations>>

tasks == <<grantTask, successTimers, pendingFallbacks>>

router == <<deepLinkUrl, deeplinkResolvers, deepLinks, waitCode, deliveries>>

\* the login attempts of one process side by side, and what they sent
pkce == <<attempts, outbox>>

\* everything a resolve() and a window.close() can change
settled == <<loginOutcome, resolveLog, firstSignal, ipcPc, ipcOutcome, window, grantTimeout>>

vars ==
    <<window, state, authStrategy, pageUrl, loadPending, codeExchanged,
      oauthApprovalAttempted, loginMethodSelected, methodSelections, loginFormFilled,
      grantPageHandled,
      formFillAttempts, grantTimeout, grantTask, successTimers, pendingFallbacks,
      exchanges, loginOutcome, deepLinkUrl, deeplinkResolvers, ipcPc, ipcOutcome,
      resolveLog, lastCallback, firstSignal, ipcDeepLink, call, store, pkce, warner,
      navigations, callbacks,
      deepLinks, waitCode, deliveries>>

\* no chain was started; clicked and starts are history: whether the chain's
\* button click succeeded, and how many chains the attempt started
NoTask == [src |-> "none", pc |-> "idle", clicked |-> FALSE, starts |-> 0]

\* grantPageHandled = true; setTimeout(...): a chain is scheduled (lines
\* 564-567, 646-647, 810-812)
StartTask(src) ==
    [src |-> src, pc |-> "click", clicked |-> FALSE, starts |-> grantTask.starts + 1]

NoCallback == [handler |-> "none", url |-> Undefined, n |-> 0]

\* the oauth-wait-code calls the renderer makes in one run
WaitCalls == {"wait1", "wait2"}

\* a fresh installation: no credentials.json, appData reset, the
\* authentication window shown, no login or logout yet
NoStore ==
    [credentialsFile  |-> [kind |-> "missing"],
     appData          |-> [serverUrl |-> <<>>, credentials |-> [null |-> TRUE]],
     createMainWindow |-> "createAuthenticationWindow",
     last             |-> [op |-> "none"]]

\* no pure function was called yet
NoCall == [fn |-> "none"]

\* the login attempts one process runs side by side: main.js 452-524 starts
\* one per authentication:openLoginWebView call and holds no other back
Attempts == {"attempt1", "attempt2"}

\* an attempt that was not started
NoAttempt == [pc |-> "none"]

\* a call that was not made yet; result Undefined is null
NoWait == [pc |-> "idle", result |-> Undefined]

(***************************************************************************)
(* spreed/src/utils/webrtc/SpeakingWhileMutedWarner.js                     *)
(***************************************************************************)

\* how often the model's speakingWhileMuted attribute turns true in a run
MaxSpeakingTurns == 3

\* the handle of a timeout that is not set
NoTimeout == 0

\* the warner after its constructor (lines 33-45), and the model's attribute.
\* A timeout's handle is the number of the turn to true it was set in.
\*   speakingWhileMuted, turn            the model: its attribute, and how
\*                                       often it has turned true
\*   held                                history: the timeout set when the
\*                                       attribute last turned true has run
\*                                       while the attribute was still true
\*   listening                           the change handler is registered
\*   destroyed                           history: destroy() was called
\*   speakingTimeouts, showTimeouts      the pending setTimeout callbacks
\*   permissionRequests                  unsettled requestPermission promises
NewWarner ==
    [speakingWhileMuted         |-> FALSE,
     turn                       |-> 0,
     held                       |-> FALSE,
     listening                  |-> TRUE,
     destroyed                  |-> FALSE,
     startedSpeakingTimeout     |-> NoTimeout,
     startedShowWarningTimeout  |-> NoTimeout,
     speakingTimeouts           |-> {},
     showTimeouts               |-> {},
     showPopup                  |-> FALSE,
     browserNotification        |-> FALSE,
     pendingBrowserNotification |-> FALSE,
     permissionRequests         |-> 0]

\* the state when the application is ready and no login was asked for yet
\* the state before authentication:openLoginWebView is invoked, for a
\* strategy of one of the given types
InitWith(strategies) ==
    /\ window = "none"
    /\ state = Undefined
    /\ authStrategy \in strategies
    /\ pageUrl = BlankUrl
    /\ loadPending = FALSE
    /\ codeExchanged = FALSE
    /\ oauthApprovalAttempted = FALSE
    /\ loginMethodSelected = FALSE
    /\ methodSelections = <<>>
    /\ loginFormFilled = FALSE
    /\ grantPageHandled = FALSE
    /\ formFillAttempts = 0
    /\ grantTimeout = "unset"
    /\ grantTask = NoTask
    /\ successTimers = 0
    /\ pendingFallbacks = 0
    /\ exchanges = <<>>
    /\ loginOutcome = Pending
    /\ deepLinkUrl = Undefined
    /\ deeplinkResolvers = <<>>
    /\ ipcPc = "idle"
    /\ ipcOutcome = Pending
    /\ resolveLog = <<>>
    /\ lastCallback = NoCallback
    /\ firstSignal = "none"
    /\ ipcDeepLink = Undefined
    /\ waitCode = [c \in WaitCalls |-> NoWait]
    /\ deliveries = <<>>
    /\ call = NoCall
    /\ store = NoStore
    /\ attempts = [a \in Attempts |-> NoAttempt]
    /\ outbox = {}
    /\ warner = NewWarner
    /\ navigations = 0
    /\ callbacks = 0
    /\ deepLinks = 0

Init == InitWith(StrategyTypes)

(***************************************************************************)
(* Resolution of the attempt                                               *)
(***************************************************************************)

\* a promise whose last resolve call would win
LastResolveWins(p, v) == v

\* resolve of the promise openLoginWebView returns (line 426): only the first
\* call settles it
Resolve(p, v) == IF p = Pending THEN v ELSE p

RECURSIVE ApplyResolves(_, _)
ApplyResolves(p, vs) ==
    IF vs = <<>> THEN p ELSE ApplyResolves(Resolve(p, Head(vs)), Tail(vs))

\* a close handler that resolves nothing
SilentCloseHandler == <<>>

\* window.on('close') (lines 844-849): what the handler passes to resolve
CloseHandler == IF ~codeExchanged THEN <<Cancelled>> ELSE <<>>

\* resolve is called with each value of vs in turn; when this settles the
\* promise and the IPC handler has chained loginPromise.then(resolve)
\* (main.js line 517), the handler returns in the same turn
Settle(vs) ==
    LET out == ApplyResolves(loginOutcome, vs)
    IN  /\ loginOutcome' = out
        /\ resolveLog' = resolveLog \o vs
        /\ firstSignal' =
               IF firstSignal = "none" /\ out # Pending THEN "login" ELSE firstSignal
        /\ IF ipcPc = "waitLogin" /\ out # Pending
           THEN ipcPc' = "done" /\ ipcOutcome' = out
           ELSE UNCHANGED <<ipcPc, ipcOutcome>>

\* the window goes away; its close handler clears the watchdog (line 845)
CloseWindow(by) ==
    /\ window' = by
    /\ grantTimeout' = IF grantTimeout = "pending" THEN "cleared" ELSE grantTimeout

\* resolve(v); window.close()  -- on a destroyed window close() throws, and
\* the handlers around the token exchange then call resolve with `thrown`
ResolveAndClose(v, thrown) ==
    IF window = "open"
    THEN Settle(<<v>> \o CloseHandler) /\ CloseWindow("closedByCode")
    ELSE Settle(<<v>> \o thrown) /\ UNCHANGED <<window, grantTimeout>>

(***************************************************************************)
(* main.js: authentication:openLoginWebView up to its deep-link wait       *)
(* (lines 452-486), which runs openLoginWebView up to its return           *)
(* (login.service.js lines 425-503, 806-849)                               *)
(***************************************************************************)

OpenLoginWebView ==
    /\ ipcPc = "idle"
    /\ window' = "open"
    /\ state' \in StateValues
    /\ grantTimeout' = "pending"
    /\ deeplinkResolvers' = Append(deeplinkResolvers, "login")
    /\ ipcPc' = "waitDeepLink"
    /\ UNCHANGED <<authStrategy, page, flags, tasks, exchanges, loginOutcome,
                   deepLinkUrl, deepLinks, waitCode, deliveries, ipcOutcome,
                   resolveLog, lastCallback, firstSignal, ipcDeepLink, call,
                   store, pkce, warner, callbacks>>

(***************************************************************************)
(* Page events of the login window                                         *)
(***************************************************************************)

\* did-navigate (lines 639-688)
Navigated(url) ==
    LET startGrant == Page[url].grant /\ ~grantPageHandled
        handled    == grantPageHandled \/ startGrant
    IN  /\ window = "open"
        /\ navigations' = navigations + 1
        /\ pageUrl' = url
        /\ loadPending' = TRUE
        /\ grantPageHandled' = handled
        /\ grantTask' = IF startGrant
                        THEN StartTask("did-navigate")
                        ELSE grantTask
        /\ successTimers' = IF handled /\ ~codeExchanged /\ Page[url].success
                            THEN successTimers + 1
                            ELSE successTimers
        /\ UNCHANGED <<session, codeExchanged, oauthApprovalAttempted,
                       loginMethodSelected, methodSelections, loginFormFilled,
                       formFillAttempts,
                       pendingFallbacks, exchanges, settled, router, lastCallback,
                       ipcDeepLink, call, store, pkce, warner, callbacks>>

\* the window navigates to url
DidNavigate(url) ==
    /\ navigations < MaxNavigations
    /\ Navigated(url)

\* the provider renders the page the window shows once more: the same URL
\* is loaded again (a rejected form post, a reload)
Rerender ==
    /\ navigations >= 1
    /\ navigations < MaxRenders
    /\ Navigated(pageUrl)

\* the URL of the window changes without a did-navigate event (a fragment or
\* history.pushState navigation): no listener of the code runs, getURL() changes
DidNavigateInPage(url) ==
    /\ window = "open"
    /\ navigations < MaxNavigations
    /\ url # pageUrl
    /\ navigations' = navigations + 1
    /\ pageUrl' = url
    /\ UNCHANGED <<session, loadPending, flags, tasks, exchanges, settled, router,
                   lastCallback, ipcDeepLink, call, store, pkce, warner, callbacks>>

\* a dispatch that selects the direct login whatever the strategy
selectDirectAlways(type) == "tryAutoSelectDirectLogin"

\* handleLoginMethodSelection (lines 1002-1020): the script it runs for
\* authStrategy.type, "none" for the manual strategy
handleLoginMethodSelection(type) ==
    IF type = "file" THEN "tryAutoSelectDirectLogin"
    ELSE IF type = "saml" THEN "tryAutoSelectADFS"
    ELSE "none"

\* a did-finish-load that fills the form whenever the direct page loads
LoadBranchNoCeiling(url) ==
    IF Page[url].approval /\ ~oauthApprovalAttempted THEN "approval"
    ELSE IF Page[url].selection /\ ~loginMethodSelected THEN "selection"
    ELSE IF Page[url].direct /\ authStrategy = "file" THEN "direct"
    ELSE IF Page[url].grant /\ ~grantPageHandled THEN "grant"
    ELSE IF Page[url].root /\ grantPageHandled /\ ~codeExchanged THEN "root"
    ELSE "none"

\* a did-finish-load whose grant branch does not test grantPageHandled
LoadBranchNoLatch(url) ==
    IF Page[url].approval /\ ~oauthApprovalAttempted THEN "approval"
    ELSE IF Page[url].selection /\ ~loginMethodSelected THEN "selection"
    ELSE IF /\ Page[url].direct
            /\ authStrategy = "file"
            /\ formFillAttempts < MAX_FORM_FILL_ATTEMPTS THEN "direct"
    ELSE IF Page[url].grant THEN "grant"
    ELSE IF Page[url].root /\ grantPageHandled /\ ~codeExchanged THEN "root"
    ELSE "none"

\* which branch of did-finish-load (lines 515-636) the page takes
LoadBranch(url) ==
    IF Page[url].approval /\ ~oauthApprovalAttempted THEN "approval"
    ELSE IF Page[url].selection /\ ~loginMethodSelected THEN "selection"
    ELSE IF /\ Page[url].direct
            /\ authStrategy = "file"
            /\ formFillAttempts < MAX_FORM_FILL_ATTEMPTS THEN "direct"
    ELSE IF Page[url].grant /\ ~grantPageHandled THEN "grant"
    ELSE IF Page[url].root /\ grantPageHandled /\ ~codeExchanged THEN "root"
    ELSE "none"

\* did-finish-load (lines 515-636); the awaited automation scripts of the
\* first three branches only report a result, of which the form fill's
\* (fillResult.success) is kept
DidFinishLoad ==
    LET branch == LoadBranch(pageUrl)
    IN  /\ window = "open"
        /\ loadPending
        /\ loadPending' = FALSE
        /\ oauthApprovalAttempted' = (oauthApprovalAttempted \/ branch = "approval")
        /\ loginMethodSelected' = (loginMethodSelected \/ branch = "selection")
        /\ methodSelections' =
               IF branch = "selection"
               THEN Append(methodSelections, handleLoginMethodSelection(authStrategy))
               ELSE methodSelections
        /\ formFillAttempts' =
               IF branch = "direct" THEN formFillAttempts + 1 ELSE formFillAttempts
        /\ loginFormFilled' \in
               IF branch = "direct" THEN {loginFormFilled, TRUE} ELSE {loginFormFilled}
        /\ grantPageHandled' = (grantPageHandled \/ branch = "grant")
        /\ grantTask' = IF branch = "grant"
                        THEN StartTask("did-finish-load")
                        ELSE grantTask
        /\ pendingFallbacks' =
               IF branch = "root" THEN pendingFallbacks + 1 ELSE pendingFallbacks
        /\ UNCHANGED <<session, pageUrl, navigations, codeExchanged, successTimers,
                       exchanges, settled, router, lastCallback, ipcDeepLink,
                       call, store, pkce, warner,
                       callbacks>>

\* the 20 s watchdog (lines 806-839)
GrantTimeoutFires ==
    LET start == Page[pageUrl].grant /\ ~grantPageHandled /\ ~codeExchanged
    IN  /\ grantTimeout = "pending"
        /\ grantTimeout' = "fired"
        /\ grantPageHandled' = (grantPageHandled \/ start)
        /\ grantTask' = IF start
                        THEN StartTask("grantTimeout")
                        ELSE grantTask
        /\ UNCHANGED <<session, page, codeExchanged, oauthApprovalAttempted,
                       loginMethodSelected, methodSelections, loginFormFilled,
                       formFillAttempts,
                       successTimers, pendingFallbacks, exchanges, loginOutcome,
                       resolveLog, firstSignal, ipcPc, ipcOutcome, window, router,
                       lastCallback, ipcDeepLink, call, store, pkce, warner, callbacks>>

(***************************************************************************)
(* The grant-page automation chain, started by did-finish-load (lines      *)
(* 567-622), did-navigate (lines 647-665) or the watchdog (lines 812-837). *)
(* A step that finds the window destroyed throws and ends the chain.       *)
(***************************************************************************)

TaskAt(pc) == [grantTask EXCEPT !.pc = pc]

\* the chain after a click that succeeded (buttonResult.success)
Clicked == [grantTask EXCEPT !.pc = "wait8000", !.clicked = TRUE]

\* where the chain goes when its first attempt did not resolve: did-navigate
\* has no second attempt
AfterAttempt1 == IF grantTask.src = "did-navigate" THEN TaskAt("done") ELSE TaskAt("form")

taskFrame ==
    <<session, page, flags, successTimers, pendingFallbacks, exchanges, router,
      lastCallback, ipcDeepLink, call, store, pkce, warner, callbacks>>

\* the start timer fires and tryDirectButtonClick returns
GrantClick(success) ==
    /\ grantTask.pc = "click"
    /\ grantTask' = IF window # "open" THEN TaskAt("done")
                    ELSE IF success THEN Clicked
                    ELSE AfterAttempt1
    /\ UNCHANGED <<taskFrame, settled>>

\* the 8 s wait after a successful click is over
GrantWaitOver ==
    /\ grantTask.pc = "wait8000"
    /\ grantTask' = IF window # "open" THEN TaskAt("done")
                    ELSE IF grantTask.src = "grantTimeout" \/ Page[pageUrl].stillFlow
                    THEN TaskAt("fallback1")
                    ELSE AfterAttempt1
    /\ UNCHANGED <<taskFrame, settled>>

\* handleGrantPageCompletionFallback returns to the chain
GrantFallback(userInfo) ==
    LET r == Fallback[userInfo, pageUrl, state]
    IN  /\ grantTask.pc \in {"fallback1", "fallback2"}
        /\ IF window = "open" /\ r.success
           THEN /\ ResolveAndClose(r.credentials, <<>>)
                /\ grantTask' = TaskAt("done")
           ELSE /\ grantTask' = IF window # "open" \/ grantTask.pc = "fallback2"
                                THEN TaskAt("done")
                                ELSE AfterAttempt1
                /\ UNCHANGED settled
        /\ UNCHANGED taskFrame

\* a chain that gives the attempt up when the form submission fails
GrantFormAborting(success) ==
    /\ grantTask.pc = "form"
    /\ grantTask' = IF window = "open" /\ success THEN TaskAt("waitForm")
                    ELSE TaskAt("done")
    /\ IF window = "open" /\ ~success
       THEN ResolveAndClose(Failure("Native form submission failed"), <<>>)
       ELSE UNCHANGED settled
    /\ UNCHANGED taskFrame

\* tryNativeFormSubmission returns
GrantForm(success) ==
    /\ grantTask.pc = "form"
    /\ grantTask' = IF window = "open" /\ success THEN TaskAt("waitForm")
                    ELSE TaskAt("done")
    /\ UNCHANGED <<taskFrame, settled>>

\* the wait after a successful form submission is over
GrantFormWaitOver ==
    /\ grantTask.pc = "waitForm"
    /\ grantTask' = IF window # "open" THEN TaskAt("done")
                    ELSE IF grantTask.src = "grantTimeout" \/ Page[pageUrl].stillFlow
                    THEN TaskAt("fallback2")
                    ELSE TaskAt("done")
    /\ UNCHANGED <<taskFrame, settled>>

\* a 3 s success-page timer of did-navigate fires (lines 678-685)
SuccessTimerFires ==
    /\ successTimers > 0
    /\ successTimers' = successTimers - 1
    /\ pendingFallbacks' = IF window = "open" THEN pendingFallbacks + 1
                           ELSE pendingFallbacks
    /\ UNCHANGED <<session, page, flags, grantTask, exchanges, settled, router,
                   lastCallback, ipcDeepLink, call, store, pkce, warner, callbacks>>

\* a fallback awaited by did-finish-load (line 629) or by a success-page
\* timer (line 679) returns
FallbackReturns(userInfo) ==
    LET r == Fallback[userInfo, pageUrl, state]
    IN  /\ pendingFallbacks > 0
        /\ pendingFallbacks' = pendingFallbacks - 1
        /\ IF window = "open" /\ r.success
           THEN ResolveAndClose(r.credentials, <<>>)
           ELSE UNCHANGED settled
        /\ UNCHANGED <<session, page, flags, grantTask, successTimers, exchanges,
                       router, lastCallback, ipcDeepLink, call, store, pkce, warner, callbacks>>

(***************************************************************************)
(* The callback handlers and the token exchange                            *)
(***************************************************************************)

\* URLs a redirect or navigation of the login window can target
TargetUrls == CallbackUrls \cup {Url_idp}

\* url.startsWith('nc://login') (lines 695, 756)
IsCallback == [u \in TargetUrls |-> startsWith(u, Str_nclogin)]

\* a handler that would route on the presence of a code alone
MatchesCodeOnly(url) == OAuthParams[url].code # Undefined

\* the code and state of the callback match the session (lines 706, 766)
Matches(url) == OAuthParams[url].code # Undefined /\ OAuthParams[url].state = state

\* exchangeAuthorizationCode is called (lines 713, 771)
StartExchange(handler, url) ==
    /\ codeExchanged' = TRUE
    /\ exchanges' = Append(exchanges,
                           [via |-> handler, code |-> OAuthParams[url].code,
                            status |-> "inflight", response |-> NullToken,
                            cb |-> callbacks + 1])

callbackFrame ==
    <<session, page, oauthApprovalAttempted, loginMethodSelected, methodSelections,
      loginFormFilled,
      grantPageHandled, formFillAttempts, tasks, router, ipcDeepLink, call, store, pkce, warner>>

\* a will-redirect that exchanges every matching callback
WillRedirectNoLatch(url) ==
    /\ window = "open"
    /\ callbacks < MaxCallbacks
    /\ IF ~IsCallback[url]
       THEN UNCHANGED <<codeExchanged, exchanges, settled, lastCallback, callbacks>>
       ELSE /\ callbacks' = callbacks + 1
            /\ lastCallback' =
                   [handler |-> "will-redirect", url |-> url, n |-> callbacks + 1]
            /\ IF ~Parsed[url].ok
               THEN /\ ResolveAndClose(Failure("OAuth authorization failed"), <<>>)
                    /\ UNCHANGED <<codeExchanged, exchanges>>
               ELSE IF Matches(url)
               THEN /\ StartExchange("will-redirect", url)
                    /\ UNCHANGED settled
               ELSE /\ ResolveAndClose(ParsedCredentials(Parsed[url]), <<>>)
                    /\ UNCHANGED <<codeExchanged, exchanges>>
    /\ UNCHANGED callbackFrame

\* will-redirect (lines 691-749)
WillRedirect(url) ==
    /\ window = "open"
    /\ callbacks < MaxCallbacks
    /\ IF ~IsCallback[url]
       THEN UNCHANGED <<codeExchanged, exchanges, settled, lastCallback, callbacks>>
       ELSE /\ callbacks' = callbacks + 1
            /\ lastCallback' =
                   [handler |-> "will-redirect", url |-> url, n |-> callbacks + 1]
            /\ IF ~Parsed[url].ok
               THEN /\ ResolveAndClose(Failure("OAuth authorization failed"), <<>>)
                    /\ UNCHANGED <<codeExchanged, exchanges>>
               ELSE IF Matches(url)
               THEN /\ IF ~codeExchanged
                       THEN StartExchange("will-redirect", url)
                       ELSE UNCHANGED <<codeExchanged, exchanges>>
                    /\ UNCHANGED settled
               ELSE /\ ResolveAndClose(ParsedCredentials(Parsed[url]), <<>>)
                    /\ UNCHANGED <<codeExchanged, exchanges>>
    /\ UNCHANGED callbackFrame

\* will-navigate (lines 752-803)
WillNavigate(url) ==
    /\ window = "open"
    /\ callbacks < MaxCallbacks
    /\ IF ~IsCallback[url]
       THEN UNCHANGED <<codeExchanged, exchanges, settled, lastCallback, callbacks>>
       ELSE /\ callbacks' = callbacks + 1
            /\ lastCallback' =
                   [handler |-> "will-navigate", url |-> url, n |-> callbacks + 1]
            /\ IF ~Parsed[url].ok
               THEN /\ ResolveAndClose(Failure("OAuth callback failed"), <<>>)
                    /\ UNCHANGED <<codeExchanged, exchanges>>
               ELSE IF Matches(url) /\ ~codeExchanged
               THEN /\ StartExchange("will-navigate", url)
                    /\ UNCHANGED settled
               ELSE /\ ResolveAndClose(ParsedCredentials(Parsed[url]), <<>>)
                    /\ UNCHANGED <<codeExchanged, exchanges>>
    /\ UNCHANGED callbackFrame

ExchangeFailed == Failure("Failed to exchange authorization code for token")

\* exchangeAuthorizationCode returns tokenData (lines 1339-1356) to the
\* handler that awaits it (lines 715-733, 772-789)
ExchangeReturn(i, tokenData) ==
    /\ exchanges[i].status = "inflight"
    /\ exchanges' = [exchanges EXCEPT ![i].status = "returned",
                                      ![i].response = tokenData]
    /\ ResolveAndClose(
           IF tokenData.ok THEN OAuthCredentials(tokenData) ELSE ExchangeFailed,
           IF exchanges[i].via = "will-redirect"
           THEN <<Failure("OAuth authorization failed")>>
           ELSE <<Failure("OAuth token exchange failed")>>)
    /\ UNCHANGED <<session, page, flags, tasks, router, lastCallback,
                   ipcDeepLink, call, store, pkce, warner,
                   callbacks>>

\* the user closes the login window: window.on('close') (lines 844-849)
UserClose ==
    /\ window = "open"
    /\ Settle(CloseHandler)
    /\ CloseWindow("closedByUser")
    /\ UNCHANGED <<session, page, flags, tasks, exchanges, router, lastCallback,
                   ipcDeepLink, call, store, pkce, warner, callbacks>>

(***************************************************************************)
(* main.js: the deep-link router and the rest of the IPC handler           *)
(***************************************************************************)

\* the resolvers of deeplinkResolvers that still have a promise to settle:
\* the resolver of authentication:openLoginWebView stays queued after its
\* 40 s timer (it is never removed) and is then a no-op
LiveResolvers ==
    LET Live(r) == IF r = "login" THEN ipcPc = "waitDeepLink"
                   ELSE waitCode[r].pc = "waiting"
    IN  SelectSeq(deeplinkResolvers, Live)

\* notifyDeepLink (lines 63-81), called by open-url and second-instance
\* (lines 340-355): the URL is cached and every queued resolver is called
\* with it; the resolver of a waiting authentication:openLoginWebView
\* (lines 480-483) lets the handler go on to lines 488-508 in the same turn
notifyDeepLink(url) ==
    /\ deepLinks < MaxDeepLinks
    /\ deepLinks' = deepLinks + 1
    /\ deepLinkUrl' = url
    /\ deeplinkResolvers' = <<>>
    /\ waitCode' = [c \in WaitCalls |->
                       IF waitCode[c].pc = "waiting"
                       THEN [pc |-> "done", result |-> url]
                       ELSE waitCode[c]]
    /\ deliveries' = deliveries \o
                         [i \in 1..Len(LiveResolvers) |->
                             [n |-> deepLinks + 1, to |-> LiveResolvers[i]]]
    /\ IF ipcPc = "waitDeepLink"
       THEN /\ ipcPc' = "done"
            /\ ipcOutcome' = IF Parsed[url].ok
                             THEN ParsedCredentials(Parsed[url])
                             ELSE Failure("Deep link parsing failed")
            /\ ipcDeepLink' = url
            /\ firstSignal' = IF firstSignal = "none" THEN "deeplink" ELSE firstSignal
       ELSE UNCHANGED <<ipcPc, ipcOutcome, ipcDeepLink, firstSignal>>
    /\ UNCHANGED <<session, page, flags, tasks, exchanges, loginOutcome, resolveLog,
                   window, grantTimeout, lastCallback, callbacks, call, store, pkce, warner>>

\* oauth-wait-code (lines 294-322): a cached deep link is consumed and
\* returned at once, otherwise a resolver is queued
OAuthWaitCode(c) ==
    /\ waitCode[c].pc = "idle"
    /\ IF deepLinkUrl # Undefined
       THEN /\ waitCode' = [waitCode EXCEPT ![c] = [pc |-> "done", result |-> deepLinkUrl]]
            /\ deepLinkUrl' = Undefined
            /\ deliveries' = Append(deliveries, [n |-> deepLinks, to |-> c])
            /\ UNCHANGED deeplinkResolvers
       ELSE /\ waitCode' = [waitCode EXCEPT ![c].pc = "waiting"]
            /\ deeplinkResolvers' = Append(deeplinkResolvers, c)
            /\ UNCHANGED <<deepLinkUrl, deliveries>>
    /\ UNCHANGED <<session, page, flags, tasks, exchanges, settled, deepLinks,
                   lastCallback, ipcDeepLink, call, store, pkce, warner, callbacks>>

\* a timeout that returns null and leaves its resolver in the queue
WaitCodeTimeoutKeepsResolver(c) ==
    /\ waitCode[c].pc = "waiting"
    /\ waitCode' = [waitCode EXCEPT ![c] = [pc |-> "done", result |-> Undefined]]
    /\ UNCHANGED <<session, page, flags, tasks, exchanges, settled, deepLinkUrl,
                   deeplinkResolvers, deepLinks, deliveries, lastCallback,
                   ipcDeepLink, call, store, pkce, warner, callbacks>>

\* the timer of a waiting oauth-wait-code call fires (lines 306-312): its
\* resolver is removed from the queue and the call returns null
WaitCodeTimeout(c) ==
    LET Other(r) == r # c
    IN  /\ waitCode[c].pc = "waiting"
        /\ waitCode' = [waitCode EXCEPT ![c] = [pc |-> "done", result |-> Undefined]]
        /\ deeplinkResolvers' = SelectSeq(deeplinkResolvers, Other)
        /\ UNCHANGED <<session, page, flags, tasks, exchanges, settled, deepLinkUrl,
                       deepLinks, deliveries, lastCallback, ipcDeepLink, call,
                       store, pkce, warner, callbacks>>

\* the 40 s deep-link timer fires (lines 476-478) and the handler goes on to
\* lines 514-517; the 20 s watchdog, set earlier for a shorter delay, is no
\* longer pending then
DeepLinkTimerFires ==
    /\ ipcPc = "waitDeepLink"
    /\ grantTimeout # "pending"
    /\ IF loginOutcome # Pending
       THEN ipcPc' = "done" /\ ipcOutcome' = loginOutcome
       ELSE ipcPc' = "waitLogin" /\ UNCHANGED ipcOutcome
    /\ UNCHANGED <<session, page, flags, tasks, exchanges, loginOutcome, resolveLog,
                   firstSignal, window, grantTimeout, router, lastCallback,
                   ipcDeepLink, call, store, pkce, warner, callbacks>>

(***************************************************************************)
(* custom/domainAuth.js: saved credentials and the strategy decision       *)
(*                                                                         *)
(* A JavaScript object is a record; a property that is absent reads as     *)
(* undefined, so an absent string property and an empty one are both the   *)
(* empty sequence (the code only tests such properties for truthiness).    *)
(***************************************************************************)

\* a second server
Https_c == Str_https \o <<":", "/", "/", "c">>

\* null, and every other value of which only falsiness is observed
NullValue == [null |-> TRUE]

Str_oauth  == <<"o", "a", "u", "t", "h">>
Str_manual == <<"m", "a", "n", "u", "a", "l">>

\* the credentials object with no property set
NoAuthFields ==
    [server |-> Undefined, user |-> Undefined, password |-> Undefined,
     username |-> Undefined, type |-> Undefined, token |-> Undefined]

\* the credentials objects a file may hold
AuthObjects ==
    [server   : {Undefined, <<"h", "t", "t", "p", ":", "/", "/", "d">>},
     user     : {Undefined, <<"a">>},
     password : {Undefined, <<"p">>},
     username : {Undefined, <<"b">>},
     type     : {Undefined, Str_oauth, Str_manual},
     token    : {Undefined, <<"t">>}]

\* the values JSON.parse may give for the credentials file
SavedValues ==
    {NullValue} \cup
    [serverUrl : {Undefined, ServerUrl, <<"c">>, Str_ftp \o <<":", "/", "/", "c">>},
     credentials : {NullValue} \cup AuthObjects]

\* the credentials file on disk: absent, unreadable or not JSON, or JSON
FileContents ==
    {[kind |-> "missing"], [kind |-> "garbage"]} \cup
    [kind : {"json"}, value : SavedValues]

\* a loader that leaves the record as it is
keepFormat(creds) == creds

\* a migration that rewrites every record with a credentials object
migrateAlways(creds) ==
    IF creds = NullValue THEN creds
    ELSE IF creds.credentials = NullValue THEN creds
    ELSE [serverUrl   |-> IF creds.serverUrl # Undefined THEN creds.serverUrl
                          ELSE creds.credentials.server,
          credentials |-> [NoAuthFields EXCEPT !.username = creds.credentials.user,
                                               !.password = creds.credentials.password]]

\* fixCredentialsFormat (lines 49-62)
fixCredentialsFormat(creds) ==
    IF creds = NullValue THEN creds
    ELSE IF creds.credentials = NullValue THEN creds
    ELSE IF /\ creds.credentials.server # Undefined
            /\ creds.credentials.user # Undefined
            /\ creds.credentials.password # Undefined
    THEN [serverUrl   |-> IF creds.serverUrl # Undefined THEN creds.serverUrl
                          ELSE creds.credentials.server,
          credentials |-> [NoAuthFields EXCEPT !.username = creds.credentials.user,
                                               !.password = creds.credentials.password]]
    ELSE creds

\* a loader that takes a file it cannot parse for an empty record
readSavedLenient(file) ==
    IF file.kind = "json" THEN fixCredentialsFormat(file.value)
    ELSE IF file.kind = "garbage"
    THEN [serverUrl |-> Undefined, credentials |-> NullValue]
    ELSE NullValue

\* readSaved (lines 11-25): null unless the file exists and parses
readSaved(file) ==
    IF file.kind = "json" THEN fixCredentialsFormat(file.value) ELSE NullValue

toUpperCase(s) ==
    [i \in 1..Len(s) |->
        IF s[i] \in LowerLetters THEN Ascii[CharCode(s[i]) - 31 - 32] ELSE s[i]]

\* what isOnDomain reads from the host: process.platform, the outcome of
\* execFileSync('whoami') and process.env.COMPUTERNAME
HostProbes ==
    [platform     : {"win32", "linux"},
     whoami       : {[throws |-> TRUE, out |-> <<>>],
                     [throws |-> FALSE, out |-> <<"d", "BACKSLASH", "u", " ">>],
                     [throws |-> FALSE, out |-> <<"p", "BACKSLASH", "u", " ">>],
                     [throws |-> FALSE, out |-> <<"u", " ">>]},
     computerName : {Undefined, <<"P">>}]

\* the properties of BUILD_CONFIG the module reads
BuildConfigs ==
    [adDomain : {Undefined, <<"d">>}, realm : {Undefined, <<"x">>},
     domain : {Undefined, ServerUrl}]

\* id.match(/^([^\\]+)\\[^\\]+$/): one backslash with text on both sides
matchDomainUser(id) ==
    LET i == indexOf(id, "BACKSLASH")
    IN  IF i > 0 /\ i < Len(id) - 1 /\ indexOf(substring(id, i + 1), "BACKSLASH") = -1
        THEN [ok |-> TRUE, domain |-> substring2(id, 0, i)]
        ELSE [ok |-> FALSE, domain |-> <<>>]

\* the comparison of lines 73-76
domainMatches(domain, computerName, expectedDomain) ==
    IF domain # <<>> /\ computerName # <<>> /\ domain # computerName
    THEN IF expectedDomain = Undefined THEN TRUE
         ELSE domain = toUpperCase(expectedDomain)
    ELSE FALSE

\* a probe whose failure counts as membership
joinedOnProbeFailure(host, expectedDomain) ==
    IF host.platform # "win32" THEN FALSE
    ELSE IF host.whoami.throws THEN TRUE
    ELSE IF ~matchDomainUser(trim(host.whoami.out)).ok THEN TRUE
    ELSE domainMatches(toUpperCase(matchDomainUser(trim(host.whoami.out)).domain),
                       toUpperCase(host.computerName), expectedDomain)

\* isOnDomain (lines 64-83)
isOnDomain(host, expectedDomain) ==
    IF host.platform # "win32" THEN FALSE
    ELSE IF host.whoami.throws THEN FALSE
    ELSE IF ~matchDomainUser(trim(host.whoami.out)).ok THEN FALSE
    ELSE domainMatches(toUpperCase(matchDomainUser(trim(host.whoami.out)).domain),
                       toUpperCase(host.computerName), expectedDomain)

\* expectedDomain of detectAuthState (line 87)
expectedDomainOf(config) ==
    IF config.adDomain # Undefined THEN config.adDomain ELSE config.realm

\* detectAuthState (lines 86-91)
detectAuthState(file, host, config) ==
    [inDomain       |-> isOnDomain(host, expectedDomainOf(config)),
     hasCreds       |-> readSaved(file) # NullValue,
     creds          |-> readSaved(file),
     expectedDomain |-> expectedDomainOf(config)]

\* a decision that puts the saved record before the domain test
fileFirstStrategy(authState, config) ==
    IF authState.hasCreds
    THEN [type |-> "file", reason |-> "credentials_file_found", creds |-> authState.creds,
          serverUrl |-> authState.creds.serverUrl]
    ELSE IF authState.inDomain
    THEN [type |-> "saml", reason |-> "domain_joined", creds |-> NullValue,
          serverUrl |-> config.domain]
    ELSE [type |-> "manual", reason |-> "no_auto_auth_available", creds |-> NullValue,
          serverUrl |-> config.domain]

\* the branches of determineAuthStrategy (lines 95-102); creds is NullValue
\* where the strategy object has no creds property
strategyOf(authState, config) ==
    IF authState.inDomain
    THEN [type |-> "saml", reason |-> "domain_joined", creds |-> NullValue,
          serverUrl |-> IF config.domain # Undefined THEN config.domain
                        ELSE IF authState.creds = NullValue THEN Undefined
                        ELSE authState.creds.serverUrl]
    ELSE IF authState.hasCreds
    THEN [type |-> "file", reason |-> "credentials_file_found", creds |-> authState.creds,
          serverUrl |-> authState.creds.serverUrl]
    ELSE [type |-> "manual", reason |-> "no_auto_auth_available", creds |-> NullValue,
          serverUrl |-> config.domain]

\* determineAuthStrategy (lines 93-105)
determineAuthStrategy(file, host, config) ==
    strategyOf(detectAuthState(file, host, config), config)

\* the identity test of validateCredentials (lines 125-128)
validIdentity(auth) ==
    IF auth.username # Undefined /\ auth.password # Undefined THEN TRUE
    ELSE IF auth.type = Str_oauth THEN auth.token # Undefined /\ auth.username # Undefined
    ELSE FALSE

\* validateCredentials (lines 122-129)
validateCredentials(creds) ==
    IF creds = NullValue THEN FALSE
    ELSE IF creds.serverUrl = Undefined \/ creds.credentials = NullValue THEN FALSE
    ELSE IF ~NewURL(creds.serverUrl).ok THEN FALSE
    ELSE validIdentity(creds.credentials)

\* the variables of the login window, the IPC handler and the router
loginVars ==
    <<session, page, flags, tasks, exchanges, settled, router, lastCallback,
      ipcDeepLink, callbacks>>

\* auth:getStrategy (main.js lines 213-215) with the file, host and
\* configuration it finds
DetermineAuthStrategy ==
    /\ call = NoCall
    /\ \E file \in FileContents, host \in HostProbes, config \in BuildConfigs :
           call' = [fn     |-> "determineAuthStrategy",
                    file   |-> file, host |-> host, config |-> config,
                    inDomain |-> detectAuthState(file, host, config).inDomain,
                    output |-> determineAuthStrategy(file, host, config)]
    /\ UNCHANGED <<loginVars, store, pkce, warner>>

\* auth:validateCredentials (main.js lines 217-218)
ValidateCredentials ==
    /\ call = NoCall
    /\ \E creds \in SavedValues :
           call' = [fn |-> "validateCredentials", creds |-> creds,
                    output |-> validateCredentials(creds)]
    /\ UNCHANGED <<loginVars, store, pkce, warner>>

\* fixCredentialsFormat on a parsed record, and again on its result
FixCredentialsFormat ==
    /\ call = NoCall
    /\ \E creds \in SavedValues :
           call' = [fn |-> "fixCredentialsFormat", creds |-> creds,
                    output |-> fixCredentialsFormat(creds),
                    again |-> fixCredentialsFormat(fixCredentialsFormat(creds))]
    /\ UNCHANGED <<loginVars, store, pkce, warner>>

\* readSaved on the file it finds
ReadSaved ==
    /\ call = NoCall
    /\ \E file \in FileContents :
           call' = [fn |-> "readSaved", file |-> file, output |-> readSaved(file)]
    /\ UNCHANGED <<loginVars, store, pkce, warner>>

(***************************************************************************)
(* main.js: authentication:login and authentication:logout, with           *)
(* handleAuthenticationLogin / handleAuthenticationLogout of domainAuth.js *)
(***************************************************************************)

\* what the renderer passes to authentication:login: a password login
\* {serverUrl, credentials} or an OAuth login {server, user, password,
\* tokenData}; hasToken is the truthiness of tokenData
LoginRequests ==
    [serverUrl   : {ServerUrl, Https_c},
     credentials : {[NoAuthFields EXCEPT !.username = <<"a">>, !.password = <<"p">>],
                    [NoAuthFields EXCEPT !.username = <<"b">>, !.password = <<"q">>]},
     server : {Undefined}, user : {Undefined}, password : {Undefined},
     hasToken : {FALSE}]
    \cup
    [serverUrl   : {Undefined},
     credentials : {NullValue},
     server : {ServerUrl, Https_c}, user : {<<"a">>, <<"b">>}, password : {<<"T">>},
     hasToken : {TRUE}]

\* the object of lines 661-668
oauthAppData(newAppData) ==
    [serverUrl   |-> newAppData.server,
     credentials |-> [NoAuthFields EXCEPT !.type = Str_oauth,
                                          !.username = newAppData.user,
                                          !.password = newAppData.password]]

\* appData after lines 109-110 of handleAuthenticationLogin
mergedAppData(appData, newAppData) ==
    [serverUrl   |-> IF newAppData.serverUrl # Undefined
                     THEN newAppData.serverUrl ELSE appData.serverUrl,
     credentials |-> IF newAppData.credentials # NullValue
                     THEN newAppData.credentials ELSE appData.credentials]

\* what writeSaved puts on disk (line 111)
savedRecord(appData) ==
    [kind  |-> "json",
     value |-> [serverUrl   |-> appData.serverUrl,
                credentials |-> IF appData.credentials # NullValue
                                THEN appData.credentials
                                ELSE [NoAuthFields EXCEPT !.type = Str_manual]]]

\* the test of line 657: the OAuth branch does not go through domainAuth
skipsCredentialStore(newAppData) == newAppData.hasToken

\* authentication:login (lines 654-696)
AuthenticationLogin(newAppData) ==
    /\ store' =
           IF skipsCredentialStore(newAppData)
           THEN [store EXCEPT !.appData = oauthAppData(newAppData),
                              !.createMainWindow = "createTalkWindow",
                              !.last = [op |-> "login", request |-> newAppData]]
           ELSE [store EXCEPT
                    !.credentialsFile = savedRecord(mergedAppData(store.appData, newAppData)),
                    !.appData = [serverUrl   |-> newAppData.serverUrl,
                                 credentials |-> newAppData.credentials],
                    !.createMainWindow = "createTalkWindow",
                    !.last = [op |-> "login", request |-> newAppData]]
    /\ UNCHANGED <<loginVars, call, pkce, warner>>

\* authentication:logout (lines 699-727) with handleAuthenticationLogout:
\* nothing happens unless the Talk window is the main window
AuthenticationLogout ==
    /\ store' =
           IF store.createMainWindow = "createTalkWindow"
           THEN [store EXCEPT !.credentialsFile = [kind |-> "missing"],
                              !.appData = NoStore.appData,
                              !.createMainWindow = "createAuthenticationWindow",
                              !.last = [op |-> "logout"]]
           ELSE [store EXCEPT !.last = [op |-> "logout"]]
    /\ UNCHANGED <<loginVars, call, pkce, warner>>

\* auth:getStrategy on the stored file, on a host that is not domain-joined
StoredStrategy ==
    /\ call' = [fn     |-> "determineAuthStrategy",
                file   |-> store.credentialsFile,
                host   |-> [platform |-> "linux",
                            whoami |-> [throws |-> TRUE, out |-> <<>>],
                            computerName |-> Undefined],
                config |-> [adDomain |-> Undefined, realm |-> Undefined,
                            domain |-> Undefined],
                output |-> determineAuthStrategy(
                               store.credentialsFile,
                               [platform |-> "linux",
                                whoami |-> [throws |-> TRUE, out |-> <<>>],
                                computerName |-> Undefined],
                               [adDomain |-> Undefined, realm |-> Undefined,
                                domain |-> Undefined])]
    /\ UNCHANGED <<loginVars, store, pkce, warner>>

(***************************************************************************)
(* login.service.js: buildLoginRedirectUrl and calls of the codec          *)
(***************************************************************************)

\* encodeURIComponent(v).replace(/%20/g, '+') (lines 179-181, 188, 193)
encodeField(v) == replacePct20(encodeURIComponent(v))

BuildError(msg) == [ok |-> FALSE, error |-> msg, url |-> <<>>]

\* the optional code and state (lines 187-195)
appendOAuth(url, code, st) ==
    url \o (IF code = Undefined THEN <<>>
            ELSE <<"&">> \o Str_code \o <<":">> \o encodeField(code))
        \o (IF st = Undefined THEN <<>>
            ELSE <<"&">> \o Str_state \o <<":">> \o encodeField(st))

\* the base URL (line 184)
baseUrl(server, user, password) ==
    Str_nc \o Str_login
        \o Str_server \o <<":">> \o encodeField(server)
        \o <<"&">> \o Str_user \o <<":">> \o encodeField(user)
        \o <<"&">> \o Str_password \o <<":">> \o encodeField(password)

\* buildLoginRedirectUrl (lines 151-207)
buildLoginRedirectUrl(credentials) ==
    IF credentials.server = Undefined THEN BuildError("Missing server")
    ELSE IF credentials.user = Undefined THEN BuildError("Missing user")
    ELSE IF credentials.password = Undefined THEN BuildError("Missing password")
    ELSE IF ~NewURL(credentials.server).ok THEN BuildError("Invalid server URL")
    ELSE [ok |-> TRUE, error |-> "",
          url |-> appendOAuth(baseUrl(credentials.server, credentials.user,
                                      credentials.password),
                              credentials.code, credentials.state)]

\* Credentials with an http or https server, non-empty user and password and
\* optional code and state
WellFormedCredentials ==
    [server   : {ServerUrl, Https_c},
     user     : {<<"a">>, <<"a", " ", "b">>},
     password : {<<"p">>, <<"p", "+", "q">>},
     code     : {Undefined, <<"k">>},
     state    : {Undefined, <<"s">>}]

\* the values buildLoginRedirectUrl is called with
CredentialsValues ==
    WellFormedCredentials \cup
    [server   : {Undefined, <<"c">>, ServerUrl, Str_ftp \o <<":", "/", "/", "c">>},
     user     : {Undefined, <<"a">>},
     password : {Undefined, <<"p">>},
     code     : {Undefined},
     state    : {Undefined}]

\* the example callback of the login flow: percent-encoded server and a
\* password with '+' for a space
Url_example ==
    <<"n", "c", ":", "/", "/", "l", "o", "g", "i", "n", "/", "s", "e", "r",
      "v", "e", "r", ":", "h", "t", "t", "p", "s", "%", "3", "A", "%", "2",
      "F", "%", "2", "F", "c", "l", "o", "u", "d", ".", "e", "x", "a", "m",
      "p", "l", "e", ".", "c", "o", "m", "&", "u", "s", "e", "r", ":", "a",
      "l", "i", "c", "e", "&", "p", "a", "s", "s", "w", "o", "r", "d", ":",
      "s", "e", "c", "r", "e", "t", "+", "p", "w">>

Str_example_server ==
    <<"h", "t", "t", "p", "s", ":", "/", "/", "c", "l", "o", "u", "d", ".",
      "e", "x", "a", "m", "p", "l", "e", ".", "c", "o", "m">>

Str_alice == <<"a", "l", "i", "c", "e">>

Str_secret_pw == <<"s", "e", "c", "r", "e", "t", " ", "p", "w">>

\* the parts of the URLs parseLoginRedirectUrl is tried on; Undefined is a
\* key that is left out
UrlParts ==
    [scheme   : {Str_nc, Str_http \o <<":", "/", "/">>, <<"n", "x", ":", "/", "/">>},
     path     : {Str_login, <<"l", "o", "g", "o", "u", "t", "/">>},
     server   : {Undefined, ServerUrl, Https_c, Str_ftp \o <<":", "/", "/", "c">>,
                 <<"h", "t", "t", "p", "x", ":", "/", "/", "c">>, <<"c">>,
                 encodeURIComponent(ServerUrl)},
     user     : {Undefined, <<"a">>},
     password : {Undefined, <<"p">>, <<"s", "+", "w">>}]

\* key:value pairs joined with '&', absent keys left out
RECURSIVE joinPairs(_)
joinPairs(pairs) ==
    IF pairs = <<>> THEN <<>>
    ELSE IF Head(pairs)[2] = Undefined THEN joinPairs(Tail(pairs))
    ELSE LET rest == joinPairs(Tail(pairs))
         IN  Head(pairs)[1] \o <<":">> \o Head(pairs)[2]
                 \o (IF rest = <<>> THEN <<>> ELSE <<"&">> \o rest)

\* the URL with the given parts
TestUrl(parts) ==
    parts.scheme \o parts.path
        \o joinPairs(<< <<Str_server, parts.server>>, <<Str_user, parts.user>>,
                        <<Str_password, parts.password>> >>)

\* no parts: the URL was not put together from parts
NoParts == [none |-> TRUE]

\* parseLoginRedirectUrl called on a URL put together from parts
ParseLoginRedirectUrl ==
    /\ call = NoCall
    /\ \E parts \in UrlParts :
           call' = [fn |-> "parseLoginRedirectUrl", parts |-> parts,
                    url |-> TestUrl(parts),
                    output |-> parseLoginRedirectUrl(TestUrl(parts))]
    /\ UNCHANGED <<loginVars, store, pkce, warner>>

\* parseLoginRedirectUrl called on a callback of the login flow
ParseCallback ==
    /\ call = NoCall
    /\ \E url \in CallbackUrls \cup {Url_example} :
           call' = [fn |-> "parseLoginRedirectUrl", parts |-> NoParts, url |-> url,
                    output |-> parseLoginRedirectUrl(url)]
    /\ UNCHANGED <<loginVars, store, pkce, warner>>

\* buildLoginRedirectUrl called on a Credentials value
BuildLoginRedirectUrl ==
    /\ call = NoCall
    /\ \E credentials \in CredentialsValues :
           call' = [fn |-> "buildLoginRedirectUrl", credentials |-> credentials,
                    output |-> buildLoginRedirectUrl(credentials)]
    /\ UNCHANGED <<loginVars, store, pkce, warner>>

\* parseLoginRedirectUrl called on the URL that was just built
ParseBuiltUrl ==
    /\ call.fn = "buildLoginRedirectUrl"
    /\ call.output.ok
    /\ call' = [fn |-> "parseBuiltUrl", credentials |-> call.credentials,
                url |-> call.output.url,
                output |-> parseLoginRedirectUrl(call.output.url)]
    /\ UNCHANGED <<loginVars, store, pkce, warner>>

(***************************************************************************)
(* The PKCE triple: login.service.js 465-473 and 1362-1369, and the same   *)
(* code in custom/autoOAuth.js 97-119; the authorization request (476-495) *)
(* and exchangeAuthorizationCode (1316-1357)                               *)
(***************************************************************************)

\* const chars of generateRandomString
chars ==
    <<
      "A", "B", "C", "D", "E", "F", "G", "H", "I", "J", "K", "L", "M",
      "N", "O", "P", "Q", "R", "S", "T", "U", "V", "W", "X", "Y", "Z",
      "a", "b", "c", "d", "e", "f", "g", "h", "i", "j", "k", "l", "m",
      "n", "o", "p", "q", "r", "s", "t", "u", "v", "w", "x", "y", "z",
      "0", "1", "2", "3", "4", "5", "6", "7", "8", "9", "-", ".", "_",
      "~">>

\* Math.random() returns draw / RandomResolution, a number in [0, 1)
RandomResolution == 1000

\* the lengths openLoginWebView asks generateRandomString for
VerifierLength == 128

StateLength == 32

\* what Math.random() returns during one call of openLoginWebView: the draws
\* repeat the given period.  Nothing makes the draws of two calls differ.
RandomStreams == {<<0>>, <<999>>, <<950, 500>>, <<960, 15, 500>>}

\* the i-th draw of a stream
random(stream, i) == stream[((i - 1) % Len(stream)) + 1]

\* s.charAt(i): the empty string outside of s
charAt(s, i) == IF i >= 0 /\ i < Len(s) THEN <<s[i + 1]>> ELSE <<>>

\* generateRandomString(length), for the stream Math.random() follows and
\* the number of draws taken from it before: the characters charAt returned,
\* joined in the order of the loop
generateRandomString(length, stream, drawn) ==
    LET picked == [i \in 1..length |->
                      charAt(chars, (random(stream, drawn + i) * Len(chars))
                                    \div RandomResolution)]
        kept == SelectSeq(picked, LAMBDA c : c # <<>>)
    IN  [i \in 1..Len(kept) |-> kept[i][1]]

\* the 32 bytes of a digest, a byte pattern repeated
DigestOf(pattern) == [i \in 1..32 |-> pattern[((i - 1) % Len(pattern)) + 1]]

\* crypto.createHash('sha256').update(data).digest(): the hash is the
\* library's, so the model reads the digest from a table, one entry per first
\* character class of the data.  The entries cover the bytes whose base64
\* digits are '+' and '/', and every digest ends in a padded group.
Digests ==
    <<DigestOf(<<0>>), DigestOf(<<255>>), DigestOf(<<251, 239, 190>>),
      DigestOf(<<105, 183, 29, 121, 248, 63>>)>>

sha256(data) == Digests[(indexOf(chars, data[1]) % Len(Digests)) + 1]

\* the digits of Buffer's 'base64' encoding
Base64Digits ==
    <<
      "A", "B", "C", "D", "E", "F", "G", "H", "I", "J", "K", "L", "M",
      "N", "O", "P", "Q", "R", "S", "T", "U", "V", "W", "X", "Y", "Z",
      "a", "b", "c", "d", "e", "f", "g", "h", "i", "j", "k", "l", "m",
      "n", "o", "p", "q", "r", "s", "t", "u", "v", "w", "x", "y", "z",
      "0", "1", "2", "3", "4", "5", "6", "7", "8", "9", "+", "/">>

\* digest('base64'): three bytes make four digits, the last group is padded
RECURSIVE base64(_)
base64(bytes) ==
    LET digit(n) == Base64Digits[n + 1]
    IN  IF bytes = <<>> THEN <<>>
        ELSE IF Len(bytes) = 1
        THEN <<digit(bytes[1] \div 4), digit((bytes[1] % 4) * 16), "=", "=">>
        ELSE IF Len(bytes) = 2
        THEN <<digit(bytes[1] \div 4),
               digit((bytes[1] % 4) * 16 + bytes[2] \div 16),
               digit((bytes[2] % 16) * 4), "=">>
        ELSE <<digit(bytes[1] \div 4),
               digit((bytes[1] % 4) * 16 + bytes[2] \div 16),
               digit((bytes[2] % 16) * 4 + bytes[3] \div 64),
               digit(bytes[3] % 64)>>
             \o base64(SubSeq(bytes, 4, Len(bytes)))

\* s.replace(/c/g, '')
removeAll(s, c) == SelectSeq(s, LAMBDA x : x # c)

\* a challenge that keeps the padding of the digest
paddedChallenge(codeVerifier) ==
    replaceAll(replaceAll(base64(sha256(codeVerifier)), "+", "-"), "/", "_")

\* generateCodeChallenge (autoOAuth.js 104-110), inline at login.service.js
\* 467-472
generateCodeChallenge(codeVerifier) ==
    removeAll(replaceAll(replaceAll(base64(sha256(codeVerifier)), "+", "-"),
                         "/", "_"), "=")

\* the three values of one attempt, drawn in the order of lines 466-473
pkceTriple(stream) ==
    LET codeVerifier == generateRandomString(VerifierLength, stream, 0)
    IN  [codeVerifier  |-> codeVerifier,
         codeChallenge |-> generateCodeChallenge(codeVerifier),
         state         |-> generateRandomString(StateLength, stream,
                                                VerifierLength)]

\* an authorization request that proves itself with the plain verifier
plainAuthorizeParams(triple) ==
    [state |-> triple.state, code_challenge |-> triple.codeVerifier,
     code_challenge_method |-> <<"p", "l", "a", "i", "n">>]

\* the parameters of oauthUrl that the attempt computes (lines 476-484); the
\* client id, redirect URI and scope are those of the configuration
authorizeParams(triple) ==
    [state |-> triple.state, code_challenge |-> triple.codeChallenge,
     code_challenge_method |-> <<"S", "2", "5", "6">>]

\* the form of exchangeAuthorizationCode that the attempt computes (lines
\* 1320-1327)
tokenParams(authorizationCode, codeVerifier) ==
    [code |-> authorizationCode, code_verifier |-> codeVerifier]

\* the authorization codes a callback may carry
AuthorizationCodes == {<<"c", "1">>, <<"c", "2">>}

\* an attempt whose promise is not resolved yet
AttemptInFlight(a) == attempts[a].pc \in {"authorizing", "exchanging"}

\* openLoginWebView up to window.loadURL(oauthUrl) (lines 465-495)
LoadAuthorizationUrl(a, stream) ==
    /\ attempts[a].pc = "none"
    /\ LET triple == pkceTriple(stream)
       IN  /\ attempts' = [attempts EXCEPT ![a] =
                              [pc |-> "authorizing", triple |-> triple]]
           /\ outbox' = outbox \cup
                  {[attempt |-> a, endpoint |-> "authorize",
                    params |-> authorizeParams(triple)]}
    /\ UNCHANGED <<loginVars, call, store, warner>>

\* a callback with a code: exchangeAuthorizationCode posts the form
PostTokenRequest(a, code) ==
    /\ attempts[a].pc = "authorizing"
    /\ attempts' = [attempts EXCEPT ![a].pc = "exchanging"]
    /\ outbox' = outbox \cup
           {[attempt |-> a, endpoint |-> "token",
             params |-> tokenParams(code, attempts[a].triple.codeVerifier)]}
    /\ UNCHANGED <<loginVars, call, store, warner>>

\* the token endpoint answered, or the window was closed: resolve()
ResolveAttempt(a) ==
    /\ AttemptInFlight(a)
    /\ attempts' = [attempts EXCEPT ![a].pc = "resolved"]
    /\ UNCHANGED <<loginVars, call, store, outbox, warner>>

\* autoOAuth.js performAuthorizationCodeFlow (lines 64-83), reached through
\* auth:testAuthorizationCodeFlow
PerformAuthorizationCodeFlow ==
    /\ call = NoCall
    /\ \E stream \in RandomStreams :
         call' = [fn |-> "performAuthorizationCodeFlow", input |-> stream,
                  output |-> pkceTriple(stream)]
    /\ UNCHANGED <<loginVars, store, pkce, warner>>

(***************************************************************************)
(* Specification                                                           *)
(***************************************************************************)

Next ==
    \/ OpenLoginWebView
    \/ \E url \in PageUrls : DidNavigate(url)
    \/ \E url \in PageUrls : DidNavigateInPage(url)
    \/ DidFinishLoad
    \/ GrantTimeoutFires
    \/ \E success \in BOOLEAN : GrantClick(success)
    \/ GrantWaitOver
    \/ \E userInfo \in PageInspections : GrantFallback(userInfo)
    \/ \E success \in BOOLEAN : GrantForm(success)
    \/ GrantFormWaitOver
    \/ SuccessTimerFires
    \/ \E userInfo \in PageInspections : FallbackReturns(userInfo)
    \/ \E url \in TargetUrls : WillRedirect(url)
    \/ \E url \in TargetUrls : WillNavigate(url)
    \/ \E i \in 1..Len(exchanges) : \E tokenData \in TokenResponses :
           ExchangeReturn(i, tokenData)
    \/ UserClose
    \/ \E url \in CallbackUrls : notifyDeepLink(url)
    \/ DeepLinkTimerFires

Spec == Init /\ [][Next]_vars

\* the deep-link router alone: arrivals, the oauth-wait-code calls and the
\* deep-link wait of authentication:openLoginWebView
RouterNext ==
    \/ OpenLoginWebView
    \/ DeepLinkTimerFires
    \/ GrantTimeoutFires
    \/ \E url \in CallbackUrls : notifyDeepLink(url)
    \/ \E c \in WaitCalls : OAuthWaitCode(c)
    \/ \E c \in WaitCalls : WaitCodeTimeout(c)

RouterSpec == Init /\ [][RouterNext]_vars

\* the router with its timers: the setTimeout of a waiting oauth-wait-code
\* call (main.js 306-312) fires unless the call returned before
RouterLiveSpec ==
    RouterSpec /\ \A c \in WaitCalls : WF_vars(WaitCodeTimeout(c))

\* the calls into custom/domainAuth.js
DomainAuthNext ==
    \/ DetermineAuthStrategy
    \/ ValidateCredentials
    \/ ReadSaved
    \/ FixCredentialsFormat

DomainAuthSpec == Init /\ [][DomainAuthNext]_vars

\* the calls of the login-flow URL codec
CodecNext ==
    \/ ParseLoginRedirectUrl
    \/ ParseCallback
    \/ BuildLoginRedirectUrl
    \/ ParseBuiltUrl

CodecSpec == Init /\ [][CodecNext]_vars

\* logins and logouts over the lifetime of the process, and the strategy
\* resolved from what they left on disk
StoreNext ==
    \/ \E newAppData \in LoginRequests : AuthenticationLogin(newAppData)
    \/ AuthenticationLogout
    \/ StoredStrategy

StoreSpec == Init /\ [][StoreNext]_vars

\* the page automation of one login window: page loads, the scripts and
\* timers they start, and the user closing the window
PageNext ==
    \/ OpenLoginWebView
    \/ \E url \in PageUrls : DidNavigate(url)
    \/ Rerender
    \/ \E url \in PageUrls : DidNavigateInPage(url)
    \/ DidFinishLoad
    \/ GrantTimeoutFires
    \/ \E success \in BOOLEAN : GrantClick(success)
    \/ GrantWaitOver
    \/ \E userInfo \in PageInspections : GrantFallback(userInfo)
    \/ \E success \in BOOLEAN : GrantForm(success)
    \/ GrantFormWaitOver
    \/ SuccessTimerFires
    \/ \E userInfo \in PageInspections : FallbackReturns(userInfo)
    \/ UserClose

\* the attempt is opened under any of the three strategies
PageInit == InitWith(StrategyTypes \cup {"manual"})

PageSpec == PageInit /\ [][PageNext]_vars

\* _hideWarning (lines 143-160)
hideWarning(w) ==
    [w EXCEPT !.pendingBrowserNotification = FALSE,
              !.showPopup = FALSE,
              !.browserNotification = FALSE,
              !.showTimeouts = IF w.startedShowWarningTimeout # NoTimeout
                               THEN @ \ {w.startedShowWarningTimeout} ELSE @,
              !.startedShowWarningTimeout = NoTimeout]

\* what Notification is when _showBrowserNotification looks at it (lines
\* 108-121): absent, or its permission
NotificationStates == {"unsupported", "denied", "granted", "default"}

\* _showBrowserNotification (lines 100-141) up to its first return, with
\* the catch handler of _showWarning (lines 84-90) when it rejected at once
showBrowserNotification(w, notification) ==
    IF w.browserNotification THEN w
    ELSE IF notification \in {"unsupported", "denied"}
    THEN [w EXCEPT !.pendingBrowserNotification = FALSE, !.showPopup = TRUE]
    ELSE IF notification = "granted"
    THEN [w EXCEPT !.pendingBrowserNotification = FALSE,
                   !.browserNotification = TRUE]
    ELSE [w EXCEPT !.permissionRequests = @ + 1]

\* _showWarning (lines 78-98); the show timeout takes the handle of the
\* speaking timeout that called it
showWarning(w, handle, hidden, notification) ==
    LET shown ==
            IF ~hidden THEN [w EXCEPT !.showPopup = TRUE]
            ELSE showBrowserNotification(
                     [w EXCEPT !.pendingBrowserNotification = TRUE], notification)
    IN  [shown EXCEPT !.startedShowWarningTimeout = handle,
                      !.showTimeouts = @ \cup {handle}]

\* the model sets speakingWhileMuted to true; _handleSpeakingWhileMuted
\* (lines 53-55, 61-67) if the warner listens
HandleSpeakingWhileMuted ==
    /\ ~warner.speakingWhileMuted
    /\ warner.turn < MaxSpeakingTurns
    /\ LET t == warner.turn + 1
           w == [warner EXCEPT !.speakingWhileMuted = TRUE, !.turn = t,
                               !.held = FALSE]
       IN  warner' = IF warner.listening
                     THEN [w EXCEPT !.startedSpeakingTimeout = t,
                                    !.speakingTimeouts = @ \cup {t}]
                     ELSE w
    /\ UNCHANGED <<loginVars, call, store, pkce>>

\* the model sets speakingWhileMuted to false;
\* _handleStoppedSpeakingWhileMuted (lines 56-58, 69-76) if the warner listens
HandleStoppedSpeakingWhileMuted ==
    /\ warner.speakingWhileMuted
    /\ LET w == [warner EXCEPT !.speakingWhileMuted = FALSE, !.held = FALSE]
       IN  warner' = IF warner.listening
                     THEN hideWarning(
                              [w EXCEPT !.speakingTimeouts =
                                            IF w.startedSpeakingTimeout # NoTimeout
                                            THEN @ \ {w.startedSpeakingTimeout}
                                            ELSE @,
                                        !.startedSpeakingTimeout = NoTimeout])
                     ELSE w
    /\ UNCHANGED <<loginVars, call, store, pkce>>

\* the 3000 ms timeout of _handleSpeakingWhileMuted runs (lines 62-66)
StartedSpeakingTimeoutFires(handle) ==
    /\ handle \in warner.speakingTimeouts
    /\ \E hidden \in BOOLEAN, notification \in NotificationStates :
           warner' = showWarning(
                         [warner EXCEPT !.speakingTimeouts = @ \ {handle},
                                        !.startedSpeakingTimeout = NoTimeout,
                                        !.held = warner.speakingWhileMuted
                                                 /\ warner.turn = handle],
                         handle, hidden, notification)
    /\ UNCHANGED <<loginVars, call, store, pkce>>

\* a Notification.requestPermission() promise settles (lines 129-139), and
\* the catch handler of _showWarning (lines 84-90) when it was not granted
RequestPermissionSettles(permission) ==
    /\ warner.permissionRequests > 0
    /\ LET w == [warner EXCEPT !.permissionRequests = @ - 1]
       IN  warner' =
               IF ~w.pendingBrowserNotification THEN w
               ELSE IF permission = "granted"
               THEN [w EXCEPT !.pendingBrowserNotification = FALSE,
                              !.browserNotification = TRUE]
               ELSE [w EXCEPT !.pendingBrowserNotification = FALSE,
                              !.showPopup = TRUE]
    /\ UNCHANGED <<loginVars, call, store, pkce>>

\* the TOAST_DEFAULT_TIMEOUT timeout of _showWarning runs (lines 93-97)
StartedShowWarningTimeoutFires(handle) ==
    /\ handle \in warner.showTimeouts
    /\ warner' = hideWarning(
                     [warner EXCEPT !.showTimeouts = @ \ {handle},
                                    !.startedShowWarningTimeout = NoTimeout])
    /\ UNCHANGED <<loginVars, call, store, pkce>>

\* destroy (lines 48-51)
Destroy ==
    /\ ~warner.destroyed
    /\ warner' = [hideWarning(warner) EXCEPT !.listening = FALSE,
                                               !.destroyed = TRUE]
    /\ UNCHANGED <<loginVars, call, store, pkce>>

\* one warner, the model it listens to, its timeouts and the browser
WarnerNext ==
    \/ HandleSpeakingWhileMuted
    \/ HandleStoppedSpeakingWhileMuted
    \/ \E handle \in 1..MaxSpeakingTurns : StartedSpeakingTimeoutFires(handle)
    \/ \E permission \in {"granted", "denied"} : RequestPermissionSettles(permission)
    \/ \E handle \in 1..MaxSpeakingTurns : StartedShowWarningTimeoutFires(handle)
    \/ Destroy

WarnerSpec == Init /\ [][WarnerNext]_vars

\* the login attempts of one process and their PKCE values
PkceNext ==
    \/ \E a \in Attempts, stream \in RandomStreams : LoadAuthorizationUrl(a, stream)
    \/ \E a \in Attempts, code \in AuthorizationCodes : PostTokenRequest(a, code)
    \/ \E a \in Attempts : ResolveAttempt(a)
    \/ PerformAuthorizationCodeFlow

PkceSpec == Init /\ [][PkceNext]_vars

(***************************************************************************)
(* Properties                                                              *)
(***************************************************************************)

\* a token exchange has been started and has not returned yet
InFlight == \E i \in 1..Len(exchanges) : exchanges[i].status = "inflight"

C2_CloseCancels ==
    (window = "closedByUser" /\ loginOutcome # Pending) => loginOutcome = Cancelled

\* C3: when every callback the window saw carried a code and the session's
\* state, a token exchange that returned a 2xx response with access_token and
\* user_id resolves the attempt with {server: the session's server URL,
\* user: user_id, password: access_token}.
C3_ExchangeSuccessResolves ==
    \A i \in 1..Len(exchanges) :
        ( /\ OAuthParams[lastCallback.url].code # Undefined
          /\ OAuthParams[lastCallback.url].state = state
          /\ exchanges[i].status = "returned"
          /\ exchanges[i].response.ok
          /\ exchanges[i].response.access_token # Undefined
          /\ exchanges[i].response.user_id # Undefined )
        => loginOutcome = OAuthCredentials(exchanges[i].response)

\* C4: when every callback the window saw carried a code and the session's
\* state, a token exchange that failed (non-2xx status or network error)
\* resolves the attempt with an error, never with credentials, and the
\* attempt starts no second exchange.
C4_ExchangeFailureIsTerminal ==
    \A i \in 1..Len(exchanges) :
        ( /\ OAuthParams[lastCallback.url].code # Undefined
          /\ OAuthParams[lastCallback.url].state = state
          /\ exchanges[i].status = "returned"
          /\ ~exchanges[i].response.ok )
        => (loginOutcome.kind = "error" /\ Len(exchanges) = 1)

\* C5: a callback that parsed and carries no code, or a state other than the
\* session's, starts no token exchange and resolves the attempt with the
\* credentials decoded from it.
C5_MismatchIsPlainCredentials ==
    ( /\ lastCallback.handler # "none"
      /\ Parsed[lastCallback.url].ok
      /\ \/ OAuthParams[lastCallback.url].code = Undefined
         \/ OAuthParams[lastCallback.url].state # state )
    => /\ \A i \in 1..Len(exchanges) : exchanges[i].cb # lastCallback.n
       /\ loginOutcome = ParsedCredentials(Parsed[lastCallback.url])

\* will-redirect handled a callback with a code and another state: no
\* exchange, the attempt holds the decoded credentials, the window is closed
C5_Witness ==
    /\ lastCallback.handler = "will-redirect"
    /\ lastCallback.url = Cb_codeT
    /\ exchanges = <<>>
    /\ loginOutcome = ParsedCredentials(Parsed[Cb_codeT])
    /\ window = "closedByCode"

\* C6: a callback carrying a code and a state other than the session's is
\* rejected: the attempt is never resolved with the credentials it carries.
C6_MismatchedStateRejected ==
    ( /\ lastCallback.handler # "none"
      /\ OAuthParams[lastCallback.url].code # Undefined
      /\ OAuthParams[lastCallback.url].state # state )
    => loginOutcome # ParsedCredentials(Parsed[lastCallback.url])

\* C7: while the token exchange that set the codeExchanged latch is in
\* flight, a further callback with a code and the session's state, seen by
\* will-redirect or will-navigate, neither resolves the attempt nor closes
\* the window.
C7_LatchMakesOthersNoOps ==
    ( /\ InFlight
      /\ OAuthParams[lastCallback.url].code # Undefined
      /\ OAuthParams[lastCallback.url].state = state )
    => (loginOutcome = Pending /\ window # "closedByCode")

\* C8: an attempt that has returned an outcome to its caller, and has no
\* timer, page load, automation step or token exchange left to run, has no
\* open login window.
C8_ResolvedWindowClosed ==
    ( /\ ipcPc = "done"
      /\ ~InFlight
      /\ ~loadPending
      /\ grantTimeout # "pending"
      /\ grantTask.pc \in {"idle", "done"}
      /\ successTimers = 0
      /\ pendingFallbacks = 0 )
    => window # "open"

\* C9: an attempt resolved by a deep link that carries a code and the
\* session's state has performed the token exchange and returns the
\* token-derived credentials or the exchange error, as an in-window callback
\* does.
C9_DeepLinkLikeCallback ==
    ( /\ ipcDeepLink # Undefined
      /\ OAuthParams[ipcDeepLink].code # Undefined
      /\ OAuthParams[ipcDeepLink].state = state )
    => \E i \in 1..Len(exchanges) :
           /\ exchanges[i].status = "returned"
           /\ ipcOutcome = IF exchanges[i].response.ok
                           THEN OAuthCredentials(exchanges[i].response)
                           ELSE ExchangeFailed

\* C10: the outcome authentication:openLoginWebView returned is that of the
\* signal that fired first, the login window's resolution or the deep link.
C10_FirstSignalWins ==
    ipcPc = "done"
    => ipcOutcome =
           IF firstSignal = "login" THEN loginOutcome
           ELSE IF Parsed[ipcDeepLink].ok THEN ParsedCredentials(Parsed[ipcDeepLink])
           ELSE Failure("Deep link parsing failed")

\* C11: a deep link that arrived while no waiter was registered is cached
\* and delivered to the next waiter that registers, be it an oauth-wait-code
\* call or the deep-link wait of authentication:openLoginWebView; so no
\* waiter is left waiting while a deep link sits in the cache
C11_CachedLinkReachesNextWaiter ==
    (ipcPc = "waitDeepLink" \/ \E c \in WaitCalls : waitCode[c].pc = "waiting")
        => deepLinkUrl = Undefined

\* C12: each arriving deep link is delivered exactly once; the history holds
\* at most one delivery for every arrival
C12_DeliveredExactlyOnce ==
    \A i, j \in DOMAIN deliveries :
        deliveries[i].n = deliveries[j].n => i = j

\* the saved record and the domain test behind the last strategy decision
SavedOfCall == readSaved(call.file)

JoinedOfCall == isOnDomain(call.host, expectedDomainOf(call.config))

\* C13: determineAuthStrategy follows a strict precedence: domain-joined
\* gives 'saml' whether or not a saved record exists; not joined with a saved
\* record gives 'file' carrying that record; otherwise 'manual'
C13_StrategyPrecedence ==
    call.fn = "determineAuthStrategy" =>
        /\ JoinedOfCall => call.output.type = "saml"
        /\ (~JoinedOfCall /\ SavedOfCall # NullValue) =>
               (call.output.type = "file" /\ call.output.creds = SavedOfCall)
        /\ (~JoinedOfCall /\ SavedOfCall = NullValue) =>
               (call.output.type = "manual" /\ call.output.creds = NullValue)

\* a domain-joined host with a saved record got 'saml'
C13_Witness ==
    /\ call.fn = "determineAuthStrategy"
    /\ JoinedOfCall
    /\ SavedOfCall # NullValue
    /\ call.output.type = "saml"

\* C14: on a host that is not domain-joined the 'file' strategy is returned
\* only for a saved record that validateCredentials accepts
C14_FileStrategyOnlyIfValid ==
    (call.fn = "determineAuthStrategy" /\ ~JoinedOfCall /\ call.output.type = "file")
        => validateCredentials(call.output.creds)

\* C15: validateCredentials is false for a record without serverUrl, with a
\* serverUrl that does not parse, without identity fields, and for every
\* identity of type 'oauth' that lacks its token; it is true only for a
\* parseable serverUrl with a complete identity
C15_ValidateCredentials ==
    (call.fn = "validateCredentials" /\ call.creds # NullValue
         /\ call.creds.credentials # NullValue) =>
        LET auth == call.creds.credentials
        IN  /\ call.creds.serverUrl = Undefined => ~call.output
            /\ ~NewURL(call.creds.serverUrl).ok => ~call.output
            /\ ( /\ ~(auth.username # Undefined /\ auth.password # Undefined)
                 /\ ~(auth.type = Str_oauth /\ auth.username # Undefined
                          /\ auth.token # Undefined) ) => ~call.output
            /\ (auth.type = Str_oauth /\ auth.token = Undefined) => ~call.output
            /\ call.output => NewURL(call.creds.serverUrl).ok

\* the file of the last readSaved call holds a record in the old format
\* {credentials: {server, user, password}}
OldFormatFile ==
    /\ call.fn = "readSaved"
    /\ call.file.kind = "json"
    /\ call.file.value # NullValue
    /\ call.file.value.serverUrl = Undefined
    /\ call.file.value.credentials # NullValue
    /\ call.file.value.credentials.server # Undefined
    /\ call.file.value.credentials.user # Undefined
    /\ call.file.value.credentials.password # Undefined

C17_BuildParseRoundTrip ==
    (call.fn = "parseBuiltUrl" /\ call.credentials \in WellFormedCredentials) =>
        /\ call.output.ok
        /\ call.output.server = call.credentials.server
        /\ call.output.user = call.credentials.user
        /\ call.output.password = call.credentials.password
        /\ call.output.code = call.credentials.code
        /\ call.output.state = call.credentials.state

\* the URL has none of the defects: scheme nc://, path login/, the keys
\* server, user and password, and a server that is a valid http or https URL
NoDefect(parts) ==
    /\ parts.scheme = Str_nc
    /\ parts.path = Str_login
    /\ parts.server # Undefined
    /\ parts.user # Undefined
    /\ parts.password # Undefined
    /\ NewURL(parts.server).ok
    /\ NewURL(parts.server).protocol \in {Str_http \o <<":">>, Str_https \o <<":">>}

\* C18: parseLoginRedirectUrl fails for every URL with a wrong scheme, a
\* wrong path, a missing server, user or password, or a server that is not a
\* valid http or https URL, and succeeds for every URL without these defects
C18_ParseFailsExactlyOnDefects ==
    (call.fn = "parseLoginRedirectUrl" /\ call.parts # NoParts) =>
        (call.output.ok <=> NoDefect(call.parts))

\* C19: the callback with a percent-encoded server and '+' in the password
\* decodes to server https://cloud.example.com, user alice, password
\* 'secret pw'
C19_ExampleDecodes ==
    (call.fn = "parseLoginRedirectUrl" /\ call.url = Url_example) =>
        /\ call.output.ok
        /\ call.output.server = Str_example_server
        /\ call.output.user = Str_alice
        /\ call.output.password = Str_secret_pw

\* the fallback returns in this step, to the grant chain or to a success
\* check, for an inspection that shows a success indicator, while the window
\* is open and the attempt is unresolved
FallbackSeesSuccess(userInfo) ==
    /\ ~userInfo.error
    /\ userInfo.hasSuccessIndicator
    /\ window = "open"
    /\ loginOutcome = Pending
    /\ GrantFallback(userInfo) \/ FallbackReturns(userInfo)

\* C20: when the heuristic fallback runs on a page that shows a success
\* indicator it succeeds: the attempt resolves, without a token exchange,
\* with credentials for the session server, the extracted user name and a
\* placeholder token
C20_FallbackSucceeds ==
    [][\A userInfo \in PageInspections :
           FallbackSeesSuccess(userInfo) =>
               /\ loginOutcome'.kind = "credentials"
               /\ loginOutcome'.server = ServerUrl
               /\ loginOutcome'.user = userInfo.userName
               /\ loginOutcome'.password = Str_fallback_token
               /\ exchanges' = exchanges]_vars

\* a timer of the attempt fires in this step and its callback calls
\* executeJavaScript or getURL on the window: the start timer of the grant
\* chain, its waits, and the success check of did-navigate
TimerRunsScript ==
    \/ \E success \in BOOLEAN : GrantClick(success)
    \/ GrantWaitOver
    \/ GrantFormWaitOver
    \/ SuccessTimerFires

\* C21: once the window of a login attempt is closed, no timer of the
\* attempt fires a DOM script against it
C21_NoScriptAfterClose ==
    [][TimerRunsScript => window \notin {"closedByUser", "closedByCode"}]_vars

\* C22: the number of automated form fills of one attempt never exceeds 3,
\* however often the direct-login page is rendered, and a form is filled
\* only under the 'file' strategy
C22_FormFillCeiling ==
    /\ formFillAttempts <= 3
    /\ formFillAttempts > 0 => authStrategy = "file"

\* the direct-login page was rendered and loaded five times, three fills
\* were made
C22_Witness ==
    /\ Page[pageUrl].direct
    /\ navigations >= 5
    /\ ~loadPending
    /\ formFillAttempts = 3

\* C30: on the method-selection page 'file' runs the direct-login
\* selection, 'saml' the federated (ADFS) selection and 'manual' none, and
\* the step runs at most once per attempt
C30_SelectionByStrategyOnce ==
    /\ Len(methodSelections) <= 1
    /\ \A i \in DOMAIN methodSelections :
           methodSelections[i] =
               CASE authStrategy = "file" -> "tryAutoSelectDirectLogin"
                 [] authStrategy = "saml" -> "tryAutoSelectADFS"
                 [] OTHER -> "none"

\* the selection page loaded a second time after the federated selection ran
C30_Witness ==
    /\ authStrategy = "saml"
    /\ methodSelections = <<"tryAutoSelectADFS">>
    /\ Page[pageUrl].selection
    /\ navigations >= 2
    /\ ~loadPending

\* C23: the persisted credential record exists exactly when the most recent
\* of the login and logout operations was a login, and then holds the
\* credentials of that login, password or OAuth; after a logout it is gone
C23_RecordFollowsLastOperation ==
    /\ store.last.op = "login" =>
           /\ store.credentialsFile.kind = "json"
           /\ LET request == store.last.request
                  record  == store.credentialsFile.value
              IN  IF request.hasToken
                  THEN /\ record.serverUrl = request.server
                       /\ record.credentials.username = request.user
                       /\ record.credentials.password = request.password
                  ELSE /\ record.serverUrl = request.serverUrl
                       /\ record.credentials = request.credentials
    /\ store.last.op = "logout" => store.credentialsFile.kind = "missing"

ProducedTriples ==
    {attempts[a].triple : a \in {x \in Attempts : attempts[x].pc # "none"}}
    \cup (IF call.fn = "performAuthorizationCodeFlow" THEN {call.output} ELSE {})

\* the unreserved characters [A-Za-z0-9-._~]
UnreservedChars ==
    {Base64Digits[i] : i \in 1..62} \cup {"-", ".", "_", "~"}

\* base64url without padding (RFC 4648, section 5), digit by digit from the
\* bits of the bytes
base64url(bytes) ==
    LET bitAt(i) == IF i < 8 * Len(bytes)
                    THEN (bytes[(i \div 8) + 1] \div (2 ^ (7 - (i % 8)))) % 2
                    ELSE 0
        sextet(k) == 32 * bitAt(6 * k) + 16 * bitAt(6 * k + 1)
                     + 8 * bitAt(6 * k + 2) + 4 * bitAt(6 * k + 3)
                     + 2 * bitAt(6 * k + 4) + bitAt(6 * k + 5)
        urlDigits == SubSeq(Base64Digits, 1, 62) \o <<"-", "_">>
    IN  [k \in 1..((8 * Len(bytes) + 5) \div 6) |-> urlDigits[sextet(k - 1) + 1]]

\* C25: every PKCE triple has a verifier of exactly 128 characters and a
\* state of exactly 32, both over [A-Za-z0-9-._~], and its challenge is
\* base64url(SHA-256(verifier)) with no '=', '+' or '/'
C25_PkceTripleShape ==
    \A t \in ProducedTriples :
        /\ Len(t.codeVerifier) = 128
        /\ Len(t.state) = 32
        /\ \A i \in 1..Len(t.codeVerifier) : t.codeVerifier[i] \in UnreservedChars
        /\ \A i \in 1..Len(t.state) : t.state[i] \in UnreservedChars
        /\ t.codeChallenge = base64url(sha256(t.codeVerifier))
        /\ \A i \in 1..Len(t.codeChallenge) :
               t.codeChallenge[i] \notin {"=", "+", "/"}

\* both generators produced a triple, one from a digest whose base64 text
\* holds '/' and '=' and one from a digest whose base64 text holds '+'
C25_Witness ==
    /\ call.fn = "performAuthorizationCodeFlow"
    /\ \E a \in Attempts : attempts[a].pc # "none"
    /\ \E t \in ProducedTriples :
           LET raw == base64(sha256(t.codeVerifier))
           IN  (\E i \in 1..Len(raw) : raw[i] = "/") /\ raw[Len(raw)] = "="
    /\ \E t \in ProducedTriples :
           LET raw == base64(sha256(t.codeVerifier))
           IN  \E i \in 1..Len(raw) : raw[i] = "+"

\* C26: the verifier of a login attempt appears in no request other than
\* the token POST (the authorization URL carries the challenge), and the state
\* is never sent to the token endpoint
C26_VerifierOnlyInTokenPost ==
    \A m \in outbox :
        \A a \in {x \in Attempts : attempts[x].pc # "none"} :
            /\ m.endpoint # "token" =>
                   \A k \in DOMAIN m.params :
                       ~includes(m.params[k], attempts[a].triple.codeVerifier)
            /\ m.endpoint = "token" =>
                   /\ "state" \notin DOMAIN m.params
                   /\ \A k \in DOMAIN m.params :
                          m.params[k] # attempts[a].triple.state

\* an attempt sent its authorization request and then its token request,
\* which carries the verifier
C26_Witness ==
    \E a \in {x \in Attempts : attempts[x].pc # "none"} :
        /\ [attempt |-> a, endpoint |-> "authorize",
            params |-> authorizeParams(attempts[a].triple)] \in outbox
        /\ \E m \in outbox :
               /\ m.attempt = a
               /\ m.endpoint = "token"
               /\ m.params.code_verifier = attempts[a].triple.codeVerifier

\* the probe ran and failed: whoami threw, or what it printed is not
\* DOMAIN\user (one backslash with text before and after it)
ProbeFailed(host) ==
    /\ host.platform = "win32"
    /\ \/ host.whoami.throws
       \/ LET id == trim(host.whoami.out)
              slashes == {i \in 1..Len(id) : id[i] = "BACKSLASH"}
          IN  ~(Cardinality(slashes) = 1 /\ 1 \notin slashes /\ Len(id) \notin slashes)

\* C27: a failed domain probe is 'not joined': isOnDomain returns false and
\* determineAuthStrategy still returns a strategy, 'file' when a saved record
\* was read and 'manual' otherwise
C27_FailedProbeIsNotJoined ==
    (call.fn = "determineAuthStrategy" /\ ProbeFailed(call.host)) =>
        /\ call.inDomain = FALSE
        /\ call.output.type \in {"file", "manual"}
        /\ call.output.type = "file" <=> readSaved(call.file) # NullValue

\* whoami threw on a Windows host with a saved record: strategy 'file'
C27_Witness ==
    /\ call.fn = "determineAuthStrategy"
    /\ call.host.platform = "win32"
    /\ call.host.whoami.throws
    /\ call.output.type = "file"

\* what the claim lets end an attempt, read off one step: the user closed
\* the window, a callback failed to parse, a token exchange returned, or the
\* attempt resolved with credentials
TerminationCause ==
    \/ window' = "closedByUser"
    \/ /\ lastCallback' # lastCallback
       /\ ~Parsed[lastCallback'.url].ok
       /\ loginOutcome' \in {Failure("OAuth authorization failed"),
                             Failure("OAuth callback failed")}
    \/ \E i \in 1..Len(exchanges) :
           exchanges[i].status = "inflight" /\ exchanges'[i].status = "returned"
    \/ loginOutcome'.kind = "credentials"

\* C28: no step resolves the attempt or closes its window except a user
\* cancellation, a callback that fails to parse, a token-exchange outcome or
\* a resolution with credentials; a failed automation step does neither
C28_OnlyNamedTerminations ==
    [][(loginOutcome' # loginOutcome \/ window' \notin {window, "open"})
           => TerminationCause]_vars

\* the chain the watchdog started ran both its attempts on the open window
\* without a result, and the attempt is still pending
C28_Witness ==
    /\ grantTask.src = "grantTimeout"
    /\ grantTask.pc = "done"
    /\ window = "open"
    /\ loginOutcome = Pending

\* the server parses as a URL whose scheme is exactly http or https
HttpServer(server) ==
    /\ NewURL(server).ok
    /\ NewURL(server).protocol \in {Str_http \o <<":">>, Str_https \o <<":">>}

\* C29: every Credentials value that parseLoginRedirectUrl returns, that
\* buildLoginRedirectUrl accepts or that validateCredentials accepts has a
\* server URL with scheme exactly http or https
C29_ServerIsHttp ==
    /\ (call.fn = "parseLoginRedirectUrl" /\ call.output.ok)
           => HttpServer(call.output.server)
    /\ (call.fn = "buildLoginRedirectUrl" /\ call.output.ok)
           => HttpServer(call.credentials.server)
    /\ (call.fn = "validateCredentials" /\ call.output)
           => HttpServer(call.creds.serverUrl)

\* C31: the native form submission is attempted only if no approval button
\* was found: after a successful button click it is not performed
C31_FormOnlyWithoutButton ==
    [][(grantTask.pc = "form" /\ grantTask'.pc # "form" /\ window = "open")
           => ~grantTask.clicked]_vars

\* C35: within one login attempt the grant-page automation sequence is
\* started at most once, whichever of did-finish-load, did-navigate and the
\* watchdog sees the grant page first and however often it is loaded again
C35_GrantChainStartedOnce == grantTask.starts <= 1

\* the chain ran to its end and the grant page was loaded again afterwards
C35_Witness ==
    /\ grantTask.starts = 1
    /\ grantTask.pc = "done"
    /\ navigations >= 3
    /\ Page[pageUrl].grant
    /\ ~loadPending
    /\ window = "open"

\* C32: at most one token-exchange POST is issued per login attempt, for
\* every ordering in which will-redirect and will-navigate see matching
\* callbacks
C32_AtMostOneExchange == Len(exchanges) <= 1

\* will-navigate started the exchange and will-redirect then saw a matching
\* callback too
C32_Witness ==
    /\ Len(exchanges) = 1
    /\ exchanges[1].via = "will-navigate"
    /\ lastCallback.handler = "will-redirect"
    /\ lastCallback.n = 2
    /\ Matches(lastCallback.url)

\* C33: a credential value produced by the token-exchange path carries a
\* non-empty access token as its password: a 2xx token answer without
\* access_token never resolves the attempt as a credential success
C33_TokenCredentialsHaveToken ==
    (loginOutcome.kind = "credentials" /\ loginOutcome.tokenData.ok)
        => loginOutcome.password # Undefined

\* what one step may do to the oauth-wait-code call c
WaitCodeStep(c) ==
    /\ (waitCode[c].pc = "idle" /\ waitCode'[c].pc # "idle" /\ deepLinkUrl # Undefined)
           => /\ waitCode'[c] = [pc |-> "done", result |-> deepLinkUrl]
              /\ deepLinkUrl' = Undefined
    /\ (waitCode[c].pc = "waiting" /\ waitCode'[c].pc # "waiting")
           => /\ waitCode'[c].pc = "done"
              /\ \/ /\ deepLinks' = deepLinks + 1
                    /\ waitCode'[c].result = deepLinkUrl'
                    /\ deepLinkUrl' # Undefined
                 \/ /\ deepLinks' = deepLinks
                    /\ waitCode'[c].result = Undefined
                    /\ \A i \in 1..Len(deeplinkResolvers') : deeplinkResolvers'[i] # c
    /\ waitCode[c].pc = "done"
           => /\ waitCode'[c] = waitCode[c]
              /\ \A i \in 1..Len(deeplinkResolvers') : deeplinkResolvers'[i] # c
    /\ (deepLinks' = deepLinks + 1 /\ waitCode[c].pc = "idle")
           => deepLinkUrl' # Undefined /\ waitCode'[c] = waitCode[c]

\* C34: every oauth-wait-code call eventually returns: the cached deep link
\* at once (consuming it), the next deep link if it arrives before the
\* timeout, null at the timeout; a timed-out call leaves the queue, and a
\* deep link that arrives later is kept for the next call
C34_WaitCodeReturns ==
    /\ [][\A c \in WaitCalls : WaitCodeStep(c)]_vars
    /\ \A c \in WaitCalls : (waitCode[c].pc = "waiting") ~> (waitCode[c].pc = "done")

\* one call timed out with null, a deep link arrived afterwards, and the next
\* call returned it from the cache
C34_Witness ==
    /\ waitCode["wait1"] = [pc |-> "done", result |-> Undefined]
    /\ waitCode["wait2"].pc = "done"
    /\ waitCode["wait2"].result # Undefined
    /\ deepLinkUrl = Undefined
    /\ deliveries = <<[n |-> 1, to |-> "wait2"]>>

\* C36: there is no reachable state in which the login window is closed, no
\* token exchange is in flight and the promise of openLoginWebView is still
\* unsettled
C36_ClosedWindowResolves ==
    (/\ window \in {"closedByUser", "closedByCode"}
     /\ \A i \in 1..Len(exchanges) : exchanges[i].status # "inflight")
        => loginOutcome # Pending

\* the user closed the window during the exchange, which resolved the
\* attempt when it returned
C36_Witness ==
    /\ window = "closedByUser"
    /\ Len(exchanges) = 1
    /\ exchanges[1].status = "returned"
    /\ codeExchanged
    /\ loginOutcome # Pending
    /\ loginOutcome # Cancelled

\* C37: the deep-link waiter queue holds only resolvers of waiters that are
\* still pending: a waiter whose own timeout elapsed is no longer in it
C37_QueueHoldsPendingWaiters == deeplinkResolvers = LiveResolvers

\* C38: a credentials file that cannot be read or parsed counts as no saved
\* credentials: readSaved returns null, and determineAuthStrategy on a host
\* that is not domain-joined returns 'manual' without a record
C38_UnreadableFileIsManual ==
    /\ (call.fn = "readSaved" /\ call.file.kind = "garbage")
           => call.output = NullValue
    /\ (call.fn = "determineAuthStrategy" /\ call.file.kind = "garbage"
        /\ ~call.inDomain)
           => call.output.type = "manual" /\ call.output.creds = NullValue

\* determineAuthStrategy ran on an unreadable file on a Windows host whose
\* user is local, and returned 'manual'
C38_Witness ==
    /\ call.fn = "determineAuthStrategy"
    /\ call.file.kind = "garbage"
    /\ call.host.platform = "win32"
    /\ ~call.host.whoami.throws
    /\ ~call.inDomain
    /\ call.output.type = "manual"

\* a record in the current format: a serverUrl and a credentials object with
\* username and password, and neither of the old server and user properties
CurrentFormat(creds) ==
    /\ creds # NullValue
    /\ creds.serverUrl # Undefined
    /\ creds.credentials # NullValue
    /\ creds.credentials.username # Undefined
    /\ creds.credentials.password # Undefined
    /\ creds.credentials.server = Undefined
    /\ creds.credentials.user = Undefined

\* C39: the migration is idempotent, fixCredentialsFormat applied to its own
\* result gives that result again, and a record in the current format
\* {serverUrl, credentials: {username, password}} comes back unchanged
C39_MigrationIdempotent ==
    call.fn = "fixCredentialsFormat" =>
        /\ call.again = call.output
        /\ CurrentFormat(call.creds) => call.output = call.creds

\* an old-format record was migrated, so the first application changed it and
\* the second had a migrated record to work on
C39_Witness ==
    /\ call.fn = "fixCredentialsFormat"
    /\ call.creds # NullValue
    /\ call.creds.credentials # NullValue
    /\ call.creds.credentials.server # Undefined
    /\ call.creds.credentials.user # Undefined
    /\ call.creds.credentials.password # Undefined
    /\ call.output # call.creds
    /\ call.again = call.output
    /\ CurrentFormat(call.output)

\* the warning is up: the popup of the Talk UI or the browser notification
WarningShown == warner.showPopup \/ warner.browserNotification

\* C40: the warning is shown only once speakingWhileMuted has stayed true
\* for the whole delay, so not when it turned false before the delay ran out
\* and no longer once it has turned false, and never after destroy()
C40_WarningOnlyWhileSpeaking ==
    WarningShown =>
        /\ warner.speakingWhileMuted
        /\ warner.held
        /\ ~warner.destroyed

=============================================================================
